---- MODULE Spec2Model ----
(***************************************************************************)
(* rmutexpp: a value bundled with the std::mutex that protects it          *)
(* (rmutex<T>), the single-cell scoped reference (rmutex_ref<T>) and the   *)
(* multi-cell guard (rmutex_guard<Ts...>, with its one-cell                *)
(* specialization rmutex_guard<T>).                                        *)
(*                                                                         *)
(* Threads call the library; every call on a std::mutex (lock, try_lock,   *)
(* unlock) is one atomic step, so a blocking call is a step that is only   *)
(* enabled while the mutex is free, and std::lock / std::try_lock are      *)
(* sequences of such steps.                                                *)
(***************************************************************************)
EXTENDS Integers, Sequences, FiniteSets, TLC

\* Bounds of the model: the threads and cells that exist, the threads and
\* cells of the specification in which the threads call the library in any
\* order (Spec), the handle variables of a thread, the largest data value.
NumThreads == 3
NumCells == 3
NumUsers == 2
NumUserCells == 2
NumSlots == 2
MaxVal == 1

Threads == 1..NumThreads
Cells == 1..NumCells
Users == 1..NumUsers
UserCells == 1..NumUserCells
Slots == 1..NumSlots
Values == 0..MaxVal

\* mutex() of a std::unique_lock that was moved from.
NoCell == 0

VARIABLES
  internal_mutex,  \* [Cells -> BOOLEAN]: rmutex::_internal_mutex is locked
  internal_data,   \* [Cells -> Values]: rmutex::_internal_data
  handle,          \* [Threads -> [Slots -> handle object]]: the rmutex_ref / rmutex_guard objects of a thread
  pc,              \* [Threads -> call in progress]
  ret,             \* [Threads -> what the last completed call returned]
  lastw,           \* [Cells -> Values]: last value stored by a thread that held the cell's lock
  wr,              \* [Cells -> "init", "held", "released", "unlocked"]: no store yet / the last store was made under the lock by a handle that lives / that was destroyed / was made without the lock
  prog,            \* [Threads -> position and inputs of a thread that runs a fixed program]
  inst             \* the template instantiations the compiler has been asked for and its verdicts

vars == <<internal_mutex, internal_data, handle, pc, ret, lastw, wr, prog, inst>>

----------------------------------------------------------------------------
\* std::unique_lock<std::mutex>: the mutex it refers to and its owns flag.

defer_lock(c) == [m |-> c, o |-> FALSE]

moved_lock == [m |-> NoCell, o |-> FALSE]

\* A handle object.  refs is the data reference(s) (rmutex_ref::data,
\* rmutex_guard::_mutex_refs, rmutex_guard<T>::_data_ref), locks the
\* unique_lock(s), owns_locks the _owns_locks / _owns_lock flag (rmutex_ref
\* has none: it stays FALSE).
NoHandle == [kind |-> "none", refs |-> <<>>, locks |-> <<>>, owns_locks |-> FALSE]

Idle == [op |-> "idle", s |-> 0, first |-> 0, k |-> 0]

\* What a thread's last call returned (op "none": nothing yet); call is the
\* library call that was entered.
NoRet == [op |-> "none", s |-> 0, c |-> 0, ok |-> FALSE, held |-> FALSE, err |-> FALSE,
          call |-> "none"]

Entered(call, s) == [NoRet EXCEPT !.call = call, !.s = s]

\* The lists of cells a multi-cell guard can be constructed over: every
\* order of every set of at least two distinct cells.
RECURSIVE NoDup(_)
NoDup(q) == IF Len(q) <= 1 THEN TRUE
            ELSE (\A i \in 2..Len(q) : q[i] # q[1]) /\ NoDup(Tail(q))

ListsOver(S) == UNION {{q \in [1..n -> S] : NoDup(q)} : n \in 2..Cardinality(S)}

\* unique_lock::owns_lock() of the i-th lock of h on cell c.
HoldsLock(h, c) == \E i \in 1..Len(h.locks) : h.locks[i].m = c /\ h.locks[i].o

\* Some handle of some thread holds the lock of cell c.
Held(c) == \E t \in Threads, s \in Slots : HoldsLock(handle[t][s], c)

\* Some cell of the list cs is locked.
AnyHeld(cs) == \E i \in 1..Len(cs) : Held(cs[i])

\* The handles that hold the lock of cell c.
Holders(c) == {ts \in Threads \X Slots : HoldsLock(handle[ts[1]][ts[2]], c)}

MutexAfterReleaseFirst(locks) ==
  [c \in Cells |-> IF locks[1].m = c /\ locks[1].o THEN FALSE ELSE internal_mutex[c]]

\* Unlock every mutex a set of unique_locks owns (unique_lock::~unique_lock).
MutexAfterRelease(locks) ==
  [c \in Cells |-> IF \E i \in 1..Len(locks) : locks[i].m = c /\ locks[i].o
                   THEN FALSE ELSE internal_mutex[c]]

\* The mutexes after the unique_locks old became new: a mutex is unlocked
\* when the lock that owned it no longer does.
MutexAfterUnlock(old, new) ==
  [c \in Cells |-> IF \E i \in 1..Len(old) : old[i].m = c /\ old[i].o /\ ~new[i].o
                   THEN FALSE ELSE internal_mutex[c]]

ReleaseAll(locks) == [i \in 1..Len(locks) |-> [m |-> locks[i].m, o |-> FALSE]]

\* Thread t has no handle object: the threads of this model construct a
\* handle only then, so a thread has two handles only across a move.
NoHandles(t) == \A s \in Slots : handle[t][s] = NoHandle

\* What the caller side of a thread keeps: where it is in a fixed program, the
\* two values it writes or has read, whether its std::lock has backed off, and
\* whether a cell it asked a blocking guard for was locked when it called.
NoProg == [at |-> "start", a |-> 0, b |-> 0, backoff |-> FALSE, busy |-> FALSE]

\* No template instantiation asked for: the program has been compiled.
NoInst == [Ts |-> <<>>, T |-> <<"int">>, guard |-> "none", cell |-> "none"]

\* Every cell constructed and unlocked, no handle yet.  The cells of S hold
\* any value, the others 0.
InitCells(S) ==
  /\ internal_mutex = [c \in Cells |-> FALSE]
  /\ internal_data \in {d \in [Cells -> Values] : \A c \in Cells \ S : d[c] = 0}
  /\ lastw = internal_data
  /\ wr = [c \in Cells |-> "init"]
  /\ handle = [t \in Threads |-> [s \in Slots |-> NoHandle]]
  /\ pc = [t \in Threads |-> Idle]
  /\ ret = [t \in Threads |-> NoRet]

Init ==
  /\ InitCells({})
  /\ inst = NoInst
  /\ prog = [t \in Threads |-> NoProg]

----------------------------------------------------------------------------
\* rmutex<T>::lock(): `return rmutex_ref(*this)`.  The rmutex_ref constructor
\* binds data and then blocks in the unique_lock constructor; the thread is
\* inside the call until unique_lock_lock acquires the mutex.
rmutex_lock(t, c, s) ==
  /\ pc[t] = Idle
  /\ NoHandles(t)
  /\ handle' = [handle EXCEPT ![t][s] =
                  [kind |-> "ref", refs |-> <<c>>, locks |-> <<defer_lock(c)>>, owns_locks |-> FALSE]]
  /\ pc' = [pc EXCEPT ![t] = [op |-> "lock", s |-> s, first |-> 1, k |-> 0]]
  /\ ret' = [ret EXCEPT ![t] = Entered("lock", s)]
  /\ UNCHANGED <<internal_mutex, internal_data, lastw, wr>>

mutex_lock_adopt(c) == TRUE

\* std::mutex::lock() returns only when the mutex is free.
mutex_lock_returns(c) == ~internal_mutex[c]

\* The blocking acquisition of one mutex by a unique_lock: the rmutex_ref
\* constructor, the rmutex_guard<T> constructor and rmutex_guard<T>::lock().
unique_lock_lock(t) ==
  /\ pc[t].op = "lock"
  /\ LET s == pc[t].s
         h == handle[t][s]
         c == h.locks[1].m
     IN /\ mutex_lock_returns(c)
        /\ internal_mutex' = [internal_mutex EXCEPT ![c] = TRUE]
        /\ handle' = [handle EXCEPT ![t][s] =
                        [h EXCEPT !.locks = <<[m |-> c, o |-> TRUE]>>,
                                  !.owns_locks = (h.kind # "ref")]]
        /\ ret' = [ret EXCEPT ![t] =
                     [op |-> "lock", s |-> s, c |-> c, ok |-> TRUE, held |-> Held(c), err |-> FALSE,
                      call |-> ret[t].call]]
  /\ pc' = [pc EXCEPT ![t] = Idle]
  /\ UNCHANGED <<internal_data, lastw, wr>>

try_to_lock_adopt(c) == TRUE

\* std::unique_lock(mutex, std::try_to_lock).owns_lock(): std::mutex::try_lock
\* succeeds exactly when the mutex is free.
try_to_lock(c) == ~internal_mutex[c]

try_acquire_unchecked(c, got) ==
  [kind |-> "ref", refs |-> <<c>>, locks |-> <<[m |-> c, o |-> got]>>, owns_locks |-> FALSE]

\* What try_acquire returns: `if (lock.owns_lock())` an rmutex_ref built from
\* the data and the lock, else std::nullopt (no handle).
try_acquire_result(c, got) ==
  IF got
  THEN [kind |-> "ref", refs |-> <<c>>, locks |-> <<[m |-> c, o |-> TRUE]>>, owns_locks |-> FALSE]
  ELSE NoHandle

\* rmutex<T>::try_lock() = rmutex_ref<T>::try_acquire, into the first free
\* handle variable of the thread.  The caller may hold a handle already, on
\* this cell too: std::mutex::try_lock then fails like for any other owner.
try_acquire(t, c, s) ==
  /\ pc[t] = Idle
  /\ handle[t][s] = NoHandle
  /\ \A x \in Slots : x < s => handle[t][x] # NoHandle
  /\ LET got == try_to_lock(c)
         opt == try_acquire_result(c, got)
     IN /\ internal_mutex' = [internal_mutex EXCEPT ![c] = (got \/ @)]
        /\ handle' = [handle EXCEPT ![t][s] = opt]
        /\ ret' = [ret EXCEPT ![t] =
                     [op |-> "try_lock", s |-> s, c |-> c, ok |-> (opt # NoHandle), held |-> Held(c),
                      err |-> FALSE, call |-> "try_lock"]]
  /\ UNCHANGED <<internal_data, pc, lastw, wr>>

DestroyLeaksMutex(h) == internal_mutex

\* The mutexes after a handle is destroyed: ~unique_lock unlocks what it owns.
DestroyedMutex(h) == MutexAfterRelease(h.locks)

\* ~rmutex_ref() and ~rmutex_guard(), both defaulted: the unique_lock members
\* are destroyed.  ret keeps the cell of the first lock and whether it was held.
destroy(t, s) ==
  /\ pc[t] = Idle
  /\ handle[t][s] # NoHandle
  /\ internal_mutex' = DestroyedMutex(handle[t][s])
  /\ handle' = [handle EXCEPT ![t][s] = NoHandle]
  /\ ret' = [ret EXCEPT ![t] =
               [NoRet EXCEPT !.call = "destroy", !.op = "destroyed", !.s = s,
                             !.c = handle[t][s].locks[1].m, !.held = handle[t][s].locks[1].o]]
  /\ wr' = [c \in Cells |-> IF HoldsLock(handle[t][s], c) /\ wr[c] = "held"
                            THEN "released" ELSE wr[c]]
  /\ UNCHANGED <<internal_data, pc, lastw>>

\* rmutex_ref::operator*(): the cell the data reference designates.
deref(h) == h.refs[1]

\* Thread t holds the lock of cell c through one of its handles.
ThreadHolds(t, c) == \E s \in Slots : HoldsLock(handle[t][s], c)

\* What is remembered of a store into cell c by thread t: that the storing
\* thread held the lock of c ("held"), or did not ("unlocked").
Stored(t, c) == [wr EXCEPT ![c] = IF ThreadHolds(t, c) THEN "held" ELSE "unlocked"]

\* A store of v into cell c by thread t through its handle h; lastw follows
\* only when t holds the mutex of c.
StoreCopy(t, h, c, v) ==
  /\ internal_data' = internal_data
  /\ lastw' = IF ThreadHolds(t, c) THEN [lastw EXCEPT ![c] = v] ELSE lastw
  /\ wr' = Stored(t, c)

Store(t, h, c, v) ==
  /\ internal_data' = [internal_data EXCEPT ![c] = v]
  /\ lastw' = IF ThreadHolds(t, c) THEN [lastw EXCEPT ![c] = v] ELSE lastw
  /\ wr' = Stored(t, c)

\* `*ref = v` by the caller, who accesses the data only while the rmutex_ref
\* owns its lock (access after a move-out or an early release is undefined).
ref_write(t, s, v) ==
  /\ pc[t] = Idle
  /\ handle[t][s].kind = "ref"
  /\ handle[t][s].locks[1].o
  /\ Store(t, handle[t][s], deref(handle[t][s]), v)
  /\ ret' = [ret EXCEPT ![t] = NoRet]
  /\ UNCHANGED <<internal_mutex, handle, pc>>

\* rmutex_ref(rmutex_ref&& other): the lock is taken over, the data reference
\* is bound to the same data.
rmutex_ref_move_ctor(t, s, d) ==
  /\ pc[t] = Idle
  /\ handle[t][s].kind = "ref"
  /\ handle[t][d] = NoHandle
  /\ handle' = [handle EXCEPT ![t][d] = handle[t][s],
                              ![t][s].locks = <<[m |-> NoCell, o |-> FALSE]>>]
  /\ ret' = [ret EXCEPT ![t] = NoRet]
  /\ UNCHANGED <<internal_mutex, internal_data, pc, lastw, wr>>

unlock_skips_dtor(h) == internal_mutex

\* The mutexes after `reference.~rmutex_ref()`: the unique_lock member is
\* destroyed and unlocks what it owns.
unlock_runs_dtor(h) == DestroyedMutex(h)

\* What is left in the variable of an rmutex_ref whose destructor was called
\* explicitly: an object whose lifetime has ended, still bound to its cell,
\* that owns no lock.
EndedRef(h) == [h EXCEPT !.kind = "dead", !.locks = ReleaseAll(h.locks)]

\* The deprecated unlock(rmutex_ref<T>& reference), and `ref.~rmutex_ref()`
\* written out as in the test rmutex_refTryLock: the destructor runs while the
\* variable stays in scope.
unlock(t, s) ==
  /\ pc[t] = Idle
  /\ handle[t][s].kind = "ref"
  /\ internal_mutex' = unlock_runs_dtor(handle[t][s])
  /\ handle' = [handle EXCEPT ![t][s] = EndedRef(handle[t][s])]
  /\ ret' = [ret EXCEPT ![t] =
               [NoRet EXCEPT !.call = "unlock", !.op = "destroyed", !.s = s,
                             !.c = handle[t][s].refs[1], !.held = handle[t][s].locks[1].o]]
  /\ wr' = [c \in Cells |-> IF HoldsLock(handle[t][s], c) /\ wr[c] = "held"
                            THEN "released" ELSE wr[c]]
  /\ UNCHANGED <<internal_data, pc, lastw>>

----------------------------------------------------------------------------
\* rmutex_guard<Ts...>, two or more cells.

\* The members after the constructors' initializer lists: every unique_lock
\* is built with std::defer_lock, _owns_locks is false.
deferred_guard(cs) ==
  [kind |-> "guard", refs |-> cs, locks |-> [i \in 1..Len(cs) |-> defer_lock(cs[i])],
   owns_locks |-> FALSE]

\* rmutex_guard(Ts&... mutexes): the initializer list, then lock_all.
rmutex_guard_ctor(t, s, cs) ==
  /\ pc[t] = Idle
  /\ NoHandles(t)
  /\ handle' = [handle EXCEPT ![t][s] = deferred_guard(cs)]
  /\ pc' = [pc EXCEPT ![t] = [op |-> "lock_all", s |-> s, first |-> 1, k |-> 0]]
  /\ ret' = [ret EXCEPT ![t] = Entered("ctor", s)]
  /\ UNCHANGED <<internal_mutex, internal_data, lastw, wr>>

\* rmutex_guard(std::try_to_lock_t, Ts&... mutexes): the initializer list,
\* then try_lock_all.
rmutex_guard_try_ctor(t, s, cs) ==
  /\ pc[t] = Idle
  /\ NoHandles(t)
  /\ handle' = [handle EXCEPT ![t][s] = deferred_guard(cs)]
  /\ pc' = [pc EXCEPT ![t] = [op |-> "try_lock_all", s |-> s, first |-> 1, k |-> 0]]
  /\ ret' = [ret EXCEPT ![t] = Entered("try_ctor", s)]
  /\ UNCHANGED <<internal_mutex, internal_data, lastw, wr>>

\* unique_lock::lock() and try_lock() throw std::system_error when the lock
\* has no mutex (moved from) or already owns it; std::lock and std::try_lock
\* call them on the first lock before anything else.
lock_proceeds(h) == FALSE

\* unique_lock::lock() and try_lock() throw when the lock has no mutex or owns it.
lock_throws(h) == h.locks[1].m = NoCell \/ h.locks[1].o

\* rmutex_guard::lock() on an existing guard that can be locked: lock_all.
rmutex_guard_lock(t, s) ==
  /\ pc[t] = Idle
  /\ handle[t][s].kind = "guard"
  /\ ~lock_throws(handle[t][s])
  /\ pc' = [pc EXCEPT ![t] = [op |-> "lock_all", s |-> s, first |-> 1, k |-> 0]]
  /\ ret' = [ret EXCEPT ![t] = Entered("guard_lock", s)]
  /\ UNCHANGED <<internal_mutex, internal_data, handle, lastw, wr>>

\* rmutex_guard::try_lock() on an existing guard that can be locked:
\* try_lock_all.
rmutex_guard_try_lock(t, s) ==
  /\ pc[t] = Idle
  /\ handle[t][s].kind = "guard"
  /\ ~lock_throws(handle[t][s])
  /\ pc' = [pc EXCEPT ![t] = [op |-> "try_lock_all", s |-> s, first |-> 1, k |-> 0]]
  /\ ret' = [ret EXCEPT ![t] = Entered("guard_try_lock", s)]
  /\ UNCHANGED <<internal_mutex, internal_data, handle, lastw, wr>>

\* std::lock(std::get<Is>(_locks)...): block on the lock at position first,
\* then try_lock the others in cyclic order; when one of them is taken, unlock
\* everything and start again.  k locks of this pass are held.
LockAllTarget(t) ==
  LET n == Len(handle[t][pc[t].s].locks)
  IN ((pc[t].first - 1 + pc[t].k) % n) + 1

LockNotOwned(h, i) == h

\* The i-th unique_lock of h after its lock() or try_lock() succeeded.
SetOwned(h, i) == [h EXCEPT !.locks[i].o = TRUE]

lock_all_flag_unset == FALSE

\* lock_all after std::lock returned: `_owns_locks = true`.
lock_all_flag == TRUE

\* std::lock blocks on the first lock of the pass; with a single lock that is
\* all of it and lock_all sets the flag.
lock_all_block(t) ==
  /\ pc[t].op = "lock_all"
  /\ pc[t].k = 0
  /\ LET s == pc[t].s
         h == handle[t][s]
         i == LockAllTarget(t)
         c == h.locks[i].m
         last == (Len(h.locks) = 1)
     IN /\ mutex_lock_returns(c)
        /\ internal_mutex' = [internal_mutex EXCEPT ![c] = TRUE]
        /\ handle' = [handle EXCEPT ![t][s] =
                        [SetOwned(h, i) EXCEPT !.owns_locks = (last /\ lock_all_flag)]]
        /\ pc' = [pc EXCEPT ![t] = IF last THEN Idle ELSE [pc[t] EXCEPT !.k = 1]]
        /\ ret' = [ret EXCEPT ![t] =
                     IF last
                     THEN [op |-> "guard_lock", s |-> s, c |-> 0, ok |-> TRUE, held |-> FALSE,
                           err |-> FALSE, call |-> ret[t].call]
                     ELSE @]
  /\ UNCHANGED <<internal_data, lastw, wr>>

\* A try_lock of std::lock succeeds; after the last one std::lock returns and
\* lock_all sets _owns_locks.
lock_all_try(t) ==
  /\ pc[t].op = "lock_all"
  /\ pc[t].k >= 1
  /\ LET s == pc[t].s
         h == handle[t][s]
         i == LockAllTarget(t)
         c == h.locks[i].m
         last == (pc[t].k + 1 = Len(h.locks))
     IN /\ try_to_lock(c)
        /\ internal_mutex' = [internal_mutex EXCEPT ![c] = TRUE]
        /\ handle' = [handle EXCEPT ![t][s] =
                        [SetOwned(h, i) EXCEPT !.owns_locks = (last /\ lock_all_flag)]]
        /\ pc' = [pc EXCEPT ![t] = IF last THEN Idle ELSE [pc[t] EXCEPT !.k = @ + 1]]
        /\ ret' = [ret EXCEPT ![t] =
                     IF last
                     THEN [op |-> "guard_lock", s |-> s, c |-> 0, ok |-> TRUE, held |-> FALSE,
                           err |-> FALSE, call |-> ret[t].call]
                     ELSE @]
  /\ UNCHANGED <<internal_data, lastw, wr>>

\* A pass that goes on to wait for the lock it could not take.
WaitForFailed(p, i) == [op |-> "lock_all", s |-> p.s, first |-> i, k |-> 0]

\* std::lock after a try_lock failed at position i: the pass is to be undone.
FailedPass(p, i) == [op |-> "backoff", s |-> p.s, first |-> p.first, k |-> i]

\* A try_lock of std::lock fails at position i.
lock_all_try_fail(t) ==
  /\ pc[t].op = "lock_all"
  /\ pc[t].k >= 1
  /\ LET h == handle[t][pc[t].s]
         i == LockAllTarget(t)
     IN /\ ~try_to_lock(h.locks[i].m)
        /\ pc' = [pc EXCEPT ![t] = FailedPass(pc[t], i)]
  /\ UNCHANGED <<internal_mutex, internal_data, handle, ret, lastw, wr>>

BackoffKeepsLocks(h) == h.locks

\* The locks of a guard after a failed pass of std::lock.
BackoffLocks(h) == ReleaseAll(h.locks)

RestartAtFirst(first, failed) == first

\* The lock the next pass of std::lock blocks on: the one that could not be
\* taken.
NextFirst(first, failed) == failed

\* The failed pass is undone: every lock of the pass is unlocked, and the
\* next pass starts.
lock_all_backoff(t) ==
  /\ pc[t].op = "backoff"
  /\ LET s == pc[t].s
         h == handle[t][s]
     IN /\ internal_mutex' = MutexAfterUnlock(h.locks, BackoffLocks(h))
        /\ handle' = [handle EXCEPT ![t][s].locks = BackoffLocks(h)]
  /\ pc' = [pc EXCEPT ![t] = [op |-> "lock_all", s |-> pc[t].s,
                               first |-> NextFirst(pc[t].first, pc[t].k), k |-> 0]]
  /\ UNCHANGED <<internal_data, ret, lastw, wr>>

try_lock_all_zero(r) == (r = 0)

\* try_lock_all: `_owns_locks = (std::try_lock(...) == -1)`; std::try_lock
\* returns -1 when every lock was taken, else the 0-based position that failed.
try_lock_all_flag(r) == (r = -1)

\* std::try_lock(std::get<Is>(_locks)...): try_lock each lock in order.
try_lock_all_step(t) ==
  /\ pc[t].op = "try_lock_all"
  /\ LET s == pc[t].s
         h == handle[t][s]
         i == pc[t].k + 1
         c == h.locks[i].m
         last == (i = Len(h.locks))
     IN /\ try_to_lock(c)
        /\ internal_mutex' = [internal_mutex EXCEPT ![c] = TRUE]
        /\ handle' = [handle EXCEPT ![t][s] =
                        [SetOwned(h, i) EXCEPT !.owns_locks = (last /\ try_lock_all_flag(-1))]]
        /\ pc' = [pc EXCEPT ![t] = IF last THEN Idle ELSE [pc[t] EXCEPT !.k = i]]
        /\ ret' = [ret EXCEPT ![t] =
                     IF last
                     THEN [op |-> "guard_try_lock", s |-> s, c |-> 0, ok |-> TRUE, held |-> FALSE,
                           err |-> FALSE, call |-> ret[t].call]
                     ELSE @]
  /\ UNCHANGED <<internal_data, lastw, wr>>

try_lock_waits(c) == FALSE

\* unique_lock::try_lock() returns false at once when the mutex is locked.
try_lock_fails(c) == ~try_to_lock(c)

\* A try_lock of std::try_lock fails at position k + 1.
try_lock_all_fail(t) ==
  /\ pc[t].op = "try_lock_all"
  /\ LET h == handle[t][pc[t].s]
     IN try_lock_fails(h.locks[pc[t].k + 1].m)
  /\ pc' = [pc EXCEPT ![t].op = "rollback"]
  /\ UNCHANGED <<internal_mutex, internal_data, handle, ret, lastw, wr>>

RollbackKeepsLocks(h) == h.locks

\* The locks of a guard when std::try_lock returns the failed position.
RollbackLocks(h) == ReleaseAll(h.locks)

\* std::try_lock unlocks what it locked and returns the failed position;
\* try_lock_all stores and returns false.  ret.c is the cell it failed on.
try_lock_all_rollback(t) ==
  /\ pc[t].op = "rollback"
  /\ LET s == pc[t].s
         h == handle[t][s]
     IN /\ internal_mutex' = MutexAfterUnlock(h.locks, RollbackLocks(h))
        /\ handle' = [handle EXCEPT ![t][s] =
                        [h EXCEPT !.locks = RollbackLocks(h), !.owns_locks = try_lock_all_flag(pc[t].k)]]
        /\ ret' = [ret EXCEPT ![t] =
                     [op |-> "guard_try_lock", s |-> s, c |-> h.locks[pc[t].k + 1].m,
                      ok |-> try_lock_all_flag(pc[t].k),
                      held |-> FALSE, err |-> FALSE,
                      call |-> ret[t].call]]
  /\ pc' = [pc EXCEPT ![t] = Idle]
  /\ UNCHANGED <<internal_data, lastw, wr>>

\* rmutex_guard::owns().
owns(h) == h.owns_locks

\* The cells of a guard in the order of their addresses.
tuple_by_address(h) == SortSeq(h.refs, LAMBDA x, y : x < y)

\* rmutex_guard::tuple_of_refs: the cells whose _internal_data the tuple
\* refers to, in the order of _mutex_refs.
tuple_of_refs(h) == [i \in 1..Len(h.refs) |-> h.refs[i]]

NullOpt == [present |-> FALSE, tuple |-> <<>>]

get_data_unchecked(h) == [present |-> TRUE, tuple |-> tuple_of_refs(h)]

\* rmutex_guard::get_data() and rmutex_guard<T>::get_data().
get_data(h) ==
  IF h.owns_locks THEN [present |-> TRUE, tuple |-> tuple_of_refs(h)] ELSE NullOpt

\* `std::get<i>(*guard.get_data()) = v`: a store through the i-th reference
\* of a populated optional.
guard_write(t, s, i, v) ==
  /\ pc[t] = Idle
  /\ handle[t][s].kind \in {"guard", "guard1"}
  /\ LET d == get_data(handle[t][s])
     IN /\ d.present
        /\ i \in 1..Len(d.tuple)
        /\ Store(t, handle[t][s], d.tuple[i], v)
  /\ ret' = [ret EXCEPT ![t] = NoRet]
  /\ UNCHANGED <<internal_mutex, handle, pc>>

moved_from_keeps_flag(h) ==
  [h EXCEPT !.locks = [i \in 1..Len(h.locks) |-> moved_lock]]

\* The source of a move construction afterwards: its unique_locks were moved
\* from; a guard's flag is cleared in the constructor body.
moved_from(h) ==
  [h EXCEPT !.locks = [i \in 1..Len(h.locks) |-> moved_lock], !.owns_locks = FALSE]

\* rmutex_guard(rmutex_guard&& other), both forms: the locks and the flag
\* are taken over, the data references are copied.
guard_move_ctor(t, s, d) ==
  /\ pc[t] = Idle
  /\ handle[t][s].kind \in {"guard", "guard1"}
  /\ handle[t][d] = NoHandle
  /\ handle' = [handle EXCEPT ![t][d] = handle[t][s], ![t][s] = moved_from(handle[t][s])]
  /\ ret' = [ret EXCEPT ![t] = NoRet]
  /\ UNCHANGED <<internal_mutex, internal_data, pc, lastw, wr>>

----------------------------------------------------------------------------
\* rmutex_guard<T>, the one-cell specialization.

\* rmutex_guard(T& mutex): _lock(mutex._internal_mutex) blocks; the flag is
\* true once the constructor has returned.
rmutex_guard1_ctor(t, s, c) ==
  /\ pc[t] = Idle
  /\ NoHandles(t)
  /\ handle' = [handle EXCEPT ![t][s] =
                  [kind |-> "guard1", refs |-> <<c>>, locks |-> <<defer_lock(c)>>, owns_locks |-> FALSE]]
  /\ pc' = [pc EXCEPT ![t] = [op |-> "lock", s |-> s, first |-> 1, k |-> 0]]
  /\ ret' = [ret EXCEPT ![t] = Entered("ctor", s)]
  /\ UNCHANGED <<internal_mutex, internal_data, lastw, wr>>

\* The flag as the initializer list of the try constructor leaves it.
try_ctor_flag_initial(got) == FALSE

\* The flag after the body of the try constructor:
\* `_owns_lock = _lock.owns_lock()`.
try_ctor_flag(got) == got

\* rmutex_guard(std::try_to_lock_t, T& mutex).
rmutex_guard1_try_ctor(t, s, c) ==
  /\ pc[t] = Idle
  /\ handle[t][s] = NoHandle
  /\ \A x \in Slots : x < s => handle[t][x] # NoHandle
  /\ LET got == try_to_lock(c)
     IN /\ internal_mutex' = [internal_mutex EXCEPT ![c] = (got \/ @)]
        /\ handle' = [handle EXCEPT ![t][s] =
                        [kind |-> "guard1", refs |-> <<c>>, locks |-> <<[m |-> c, o |-> got]>>,
                         owns_locks |-> try_ctor_flag(got)]]
        /\ ret' = [ret EXCEPT ![t] =
                     [op |-> "guard_try_lock", s |-> s, c |-> 0, ok |-> got, held |-> FALSE, err |-> FALSE,
                      call |-> "try_ctor"]]
  /\ UNCHANGED <<internal_data, pc, lastw, wr>>

\* rmutex_guard<T>::lock() on a guard that can be locked: _lock.lock();
\* _owns_lock = true.
rmutex_guard1_lock(t, s) ==
  /\ pc[t] = Idle
  /\ handle[t][s].kind = "guard1"
  /\ ~lock_throws(handle[t][s])
  /\ pc' = [pc EXCEPT ![t] = [op |-> "lock", s |-> s, first |-> 1, k |-> 0]]
  /\ ret' = [ret EXCEPT ![t] = Entered("guard_lock", s)]
  /\ UNCHANGED <<internal_mutex, internal_data, handle, lastw, wr>>

\* rmutex_guard<T>::try_lock() on a guard that can be locked:
\* _owns_lock = _lock.try_lock().
rmutex_guard1_try_lock(t, s) ==
  /\ pc[t] = Idle
  /\ handle[t][s].kind = "guard1"
  /\ ~lock_throws(handle[t][s])
  /\ LET h == handle[t][s]
         c == h.locks[1].m
         got == try_to_lock(c)
     IN /\ internal_mutex' = [internal_mutex EXCEPT ![c] = (got \/ @)]
        /\ handle' = [handle EXCEPT ![t][s] =
                        [h EXCEPT !.locks = <<[m |-> c, o |-> got]>>, !.owns_locks = got]]
        /\ ret' = [ret EXCEPT ![t] =
                     [op |-> "guard_try_lock", s |-> s, c |-> 0, ok |-> got, held |-> FALSE, err |-> FALSE,
                      call |-> "guard_try_lock"]]
  /\ UNCHANGED <<internal_data, pc, lastw, wr>>

----------------------------------------------------------------------------
\* lock() and try_lock() of a guard that cannot be locked.

\* What the caller gets when a call on the handle in slot s throws
\* std::system_error.
Thrown(call, s) == [NoRet EXCEPT !.call = call, !.op = "threw", !.s = s, !.err = TRUE]

\* rmutex_guard::lock() and rmutex_guard<T>::lock() on a guard that owns its
\* locks or was moved from: the first unique_lock::lock() throws before any
\* mutex is touched and before the flag is assigned.
guard_lock_throw(t, s) ==
  /\ pc[t] = Idle
  /\ handle[t][s].kind \in {"guard", "guard1"}
  /\ lock_throws(handle[t][s])
  /\ ret' = [ret EXCEPT ![t] = Thrown("guard_lock", s)]
  /\ UNCHANGED <<internal_mutex, internal_data, handle, pc, lastw, wr>>

\* The same for try_lock(): the first unique_lock::try_lock() throws.
guard_try_lock_throw(t, s) ==
  /\ pc[t] = Idle
  /\ handle[t][s].kind \in {"guard", "guard1"}
  /\ lock_throws(handle[t][s])
  /\ ret' = [ret EXCEPT ![t] = Thrown("guard_try_lock", s)]
  /\ UNCHANGED <<internal_mutex, internal_data, handle, pc, lastw, wr>>

----------------------------------------------------------------------------
\* Move assignment of the handles and of the cells.

\* The lock ownership a handle reports: unique_lock::owns_lock() of an
\* rmutex_ref, owns() of a guard.
OwnsLock(h) == IF h.kind = "ref" THEN h.locks[1].o ELSE owns(h)

\* The first statement of rmutex_ref::operator= and of
\* rmutex_guard<T>::operator=, `_internal_lock = std::move(other._internal_lock)`:
\* unique_lock's move assignment unlocks the mutex the destination d owns,
\* takes the lock of the source s and leaves s without a mutex.
handle_move_assign(t, d, s) ==
  /\ pc[t] = Idle
  /\ d # s
  /\ handle[t][d].kind \in {"ref", "guard1"}
  /\ handle[t][s].kind = handle[t][d].kind
  /\ internal_mutex' = MutexAfterRelease(handle[t][d].locks)
  /\ handle' = [handle EXCEPT ![t][d].locks = handle[t][s].locks,
                              ![t][s].locks = <<moved_lock>>]
  /\ wr' = [c \in Cells |-> IF HoldsLock(handle[t][d], c) /\ wr[c] = "held"
                            THEN "released" ELSE wr[c]]
  /\ pc' = [pc EXCEPT ![t] = [op |-> "assign_data", s |-> d, first |-> s, k |-> 0]]
  /\ ret' = [ret EXCEPT ![t] = Entered("assign", d)]
  /\ UNCHANGED <<internal_data, lastw>>

\* `data = other.data` and `_data_ref = other._data_ref`: an assignment
\* through a reference, the handle stays bound to the cell it was constructed on.
AssignData(h, o) == h

\* `_owns_lock = other._owns_lock` of rmutex_guard<T>::operator=.
AssignFlag(h, o) == IF h.kind = "guard1" THEN [h EXCEPT !.owns_locks = o.owns_locks] ELSE h

KeepFlag(o) == o

\* `other._owns_lock = false` of rmutex_guard<T>::operator=.
ClearFlag(o) == IF o.kind = "guard1" THEN [o EXCEPT !.owns_locks = FALSE] ELSE o

\* The rest of the move assignment: the value of the source's cell is stored
\* into the cell the destination is bound to, then the flag is taken over.
assign_data(t) ==
  /\ pc[t].op = "assign_data"
  /\ LET d == pc[t].s
         s == pc[t].first
         h == handle[t][d]
         o == handle[t][s]
     IN /\ Store(t, h, h.refs[1], internal_data[o.refs[1]])
        /\ handle' = [handle EXCEPT ![t][d] = AssignFlag(AssignData(h, o), o),
                                    ![t][s] = ClearFlag(o)]
        /\ ret' = [ret EXCEPT ![t] = [Entered("assign", d) EXCEPT !.op = "assigned"]]
  /\ pc' = [pc EXCEPT ![t] = Idle]
  /\ UNCHANGED internal_mutex

\* rmutex::operator=(rmutex&& other) on cell c from cell o is entered:
\* std::lock(_internal_mutex, other._internal_mutex) starts with this
\* cell's mutex.  pc keeps c in first and o in k.
rmutex_move_assign(t, c, o) ==
  /\ pc[t] = Idle
  /\ c # o
  /\ pc' = [pc EXCEPT ![t] = [op |-> "cell_lock_this", s |-> 0, first |-> c, k |-> o]]
  /\ ret' = [ret EXCEPT ![t] = Entered("cell_assign", 0)]
  /\ UNCHANGED <<internal_mutex, internal_data, handle, lastw, wr>>

\* The mutex a pass of std::lock blocks on, and the one it then tries.
StdLockFirst(p) == IF p.op \in {"cell_lock_this", "cell_try_other"} THEN p.first ELSE p.k

StdLockSecond(p) == IF p.op \in {"cell_lock_this", "cell_try_other"} THEN p.k ELSE p.first

\* __lock_impl: `unique_lock<_L0> __first(__l0)` blocks until the first mutex
\* of the pass is free and takes it.
std_lock_first(t) ==
  /\ pc[t].op \in {"cell_lock_this", "cell_lock_other"}
  /\ mutex_lock_returns(StdLockFirst(pc[t]))
  /\ internal_mutex' = [internal_mutex EXCEPT ![StdLockFirst(pc[t])] = TRUE]
  /\ pc' = [pc EXCEPT ![t].op = IF pc[t].op = "cell_lock_this" THEN "cell_try_other"
                                ELSE "cell_try_this"]
  /\ UNCHANGED <<internal_data, handle, ret, lastw, wr>>

\* __try_lock_impl on the second mutex succeeds: `__first.release()`, std::lock
\* returns with both mutexes and the two lock_guards adopt them.
std_lock_try(t) ==
  /\ pc[t].op \in {"cell_try_other", "cell_try_this"}
  /\ try_to_lock(StdLockSecond(pc[t]))
  /\ internal_mutex' = [internal_mutex EXCEPT ![StdLockSecond(pc[t])] = TRUE]
  /\ pc' = [pc EXCEPT ![t].op = "cell_assign"]
  /\ UNCHANGED <<internal_data, handle, ret, lastw, wr>>

StdLockKeepsFirst(m) == internal_mutex

\* ~unique_lock of __first when the try failed: the first mutex m is unlocked.
StdLockUnlocksFirst(m) == [internal_mutex EXCEPT ![m] = FALSE]

\* __try_lock_impl on the second mutex fails: the first is unlocked and the
\* next pass blocks on the mutex that could not be taken.
std_lock_try_fail(t) ==
  /\ pc[t].op \in {"cell_try_other", "cell_try_this"}
  /\ try_lock_fails(StdLockSecond(pc[t]))
  /\ internal_mutex' = StdLockUnlocksFirst(StdLockFirst(pc[t]))
  /\ pc' = [pc EXCEPT ![t].op = IF pc[t].op = "cell_try_other" THEN "cell_lock_other"
                                ELSE "cell_lock_this"]
  /\ UNCHANGED <<internal_data, handle, ret, lastw, wr>>

\* `_internal_data = std::move(other._internal_data)` under both mutexes,
\* then the lock_guards unlock them.  The moved-from value is any value.
rmutex_move_data(t) ==
  /\ pc[t].op = "cell_assign"
  /\ LET c == pc[t].first
         o == pc[t].k
     IN /\ \E left \in Values :
             /\ internal_data' = [internal_data EXCEPT ![c] = internal_data[o], ![o] = left]
             /\ lastw' = [lastw EXCEPT ![c] = internal_data[o], ![o] = left]
        /\ wr' = [wr EXCEPT ![c] = "released", ![o] = "released"]
        /\ internal_mutex' = [internal_mutex EXCEPT ![c] = FALSE, ![o] = FALSE]
  /\ pc' = [pc EXCEPT ![t] = Idle]
  /\ ret' = [ret EXCEPT ![t] = [Entered("cell_assign", 0) EXCEPT !.op = "assigned"]]
  /\ UNCHANGED handle

\* rmutex(rmutex&& other) constructing cell n from cell o is entered:
\* `std::lock_guard<std::mutex> lock(other._internal_mutex)` comes first.
rmutex_move_ctor(t, n, o) ==
  /\ pc[t] = Idle
  /\ n # o
  /\ pc' = [pc EXCEPT ![t] = [op |-> "cell_ctor_lock", s |-> 0, first |-> n, k |-> o]]
  /\ ret' = [ret EXCEPT ![t] = Entered("cell_ctor", 0)]
  /\ UNCHANGED <<internal_mutex, internal_data, handle, lastw, wr>>

\* The lock_guard constructor blocks until the source's mutex is free.
lock_guard_lock(t) ==
  /\ pc[t].op = "cell_ctor_lock"
  /\ mutex_lock_returns(pc[t].k)
  /\ internal_mutex' = [internal_mutex EXCEPT ![pc[t].k] = TRUE]
  /\ pc' = [pc EXCEPT ![t].op = "cell_ctor_data"]
  /\ UNCHANGED <<internal_data, handle, ret, lastw, wr>>

LockGuardKeeps(o) == internal_mutex

\* ~lock_guard at the end of the constructor body unlocks the source's mutex.
LockGuardUnlocks(o) == [internal_mutex EXCEPT ![o] = FALSE]

\* `_internal_data = std::move(other._internal_data)` into the new cell under
\* the source's mutex, then the lock_guard unlocks it.  The new cell's own
\* mutex is default-constructed, unlocked.
rmutex_move_ctor_data(t) ==
  /\ pc[t].op = "cell_ctor_data"
  /\ LET n == pc[t].first
         o == pc[t].k
     IN /\ \E left \in Values :
             /\ internal_data' = [internal_data EXCEPT ![n] = internal_data[o], ![o] = left]
             /\ lastw' = [lastw EXCEPT ![n] = internal_data[o], ![o] = left]
        /\ wr' = [wr EXCEPT ![n] = "released", ![o] = "released"]
        /\ internal_mutex' = LockGuardUnlocks(o)
        /\ ret' = [ret EXCEPT ![t] = [Entered("cell_ctor", 0) EXCEPT !.op = "constructed", !.c = n]]
  /\ pc' = [pc EXCEPT ![t] = Idle]
  /\ UNCHANGED handle

----------------------------------------------------------------------------
\* The handle variable a thread constructs into.
Fresh == {s \in Slots : \A x \in Slots : s <= x}

\* The caller notes whether a cell it asks a blocking guard for is locked as
\* it calls; the note is dropped (FALSE) at the next call of another kind.
Observe(t, busy) ==
  /\ prog' = [prog EXCEPT ![t].busy = busy]
  /\ UNCHANGED inst

\* Threads calling the library in any order; the data is not written.
Call(t) ==
  \/ \E c \in UserCells, s \in Fresh : rmutex_lock(t, c, s) /\ Observe(t, FALSE)
  \/ unique_lock_lock(t) /\ UNCHANGED <<prog, inst>>
  \/ \E c \in UserCells, s \in Slots : try_acquire(t, c, s) /\ Observe(t, FALSE)
  \/ \E s \in Slots : destroy(t, s) /\ Observe(t, FALSE)
  \/ \E s \in Fresh, cs \in ListsOver(UserCells) : rmutex_guard_ctor(t, s, cs) /\ Observe(t, AnyHeld(cs))
  \/ \E s \in Fresh, cs \in ListsOver(UserCells) : rmutex_guard_try_ctor(t, s, cs) /\ Observe(t, FALSE)
  \/ \E s \in Slots : rmutex_guard_lock(t, s) /\ Observe(t, AnyHeld(handle[t][s].refs))
  \/ \E s \in Slots : rmutex_guard_try_lock(t, s) /\ Observe(t, FALSE)
  \/ lock_all_block(t) /\ UNCHANGED <<prog, inst>>
  \/ lock_all_try(t) /\ UNCHANGED <<prog, inst>>
  \/ lock_all_try_fail(t) /\ UNCHANGED <<prog, inst>>
  \/ lock_all_backoff(t) /\ UNCHANGED <<prog, inst>>
  \/ try_lock_all_step(t) /\ UNCHANGED <<prog, inst>>
  \/ try_lock_all_fail(t) /\ UNCHANGED <<prog, inst>>
  \/ try_lock_all_rollback(t) /\ UNCHANGED <<prog, inst>>
  \/ \E s, d \in Slots : s < d /\ guard_move_ctor(t, s, d) /\ UNCHANGED <<prog, inst>>
  \/ \E s, d \in Slots : s < d /\ rmutex_ref_move_ctor(t, s, d) /\ UNCHANGED <<prog, inst>>
  \/ \E s \in Fresh, c \in UserCells : rmutex_guard1_ctor(t, s, c) /\ Observe(t, Held(c))
  \/ \E s \in Fresh, c \in UserCells : NoHandles(t) /\ rmutex_guard1_try_ctor(t, s, c) /\ Observe(t, FALSE)
  \/ \E s \in Slots : rmutex_guard1_lock(t, s) /\ Observe(t, AnyHeld(handle[t][s].refs))
  \/ \E s \in Slots : rmutex_guard1_try_lock(t, s) /\ Observe(t, FALSE)
  \/ \E s \in Slots : guard_lock_throw(t, s) /\ Observe(t, FALSE)
  \/ \E s \in Slots : guard_try_lock_throw(t, s) /\ Observe(t, FALSE)

Next == \E t \in Users : Call(t)

Spec == Init /\ [][Next]_vars

\* Threads that lock cells singly or jointly, write the data through their
\* handle and destroy it.
InitData ==
  /\ InitCells(UserCells)
  /\ inst = NoInst
  /\ prog = [t \in Threads |-> NoProg]

DataCall(t) ==
  \/ \E c \in UserCells, s \in Fresh : rmutex_lock(t, c, s) /\ UNCHANGED <<prog, inst>>
  \/ unique_lock_lock(t) /\ UNCHANGED <<prog, inst>>
  \/ \E c \in UserCells, s \in Slots : try_acquire(t, c, s) /\ UNCHANGED <<prog, inst>>
  \/ \E s \in Slots : handle[t][s].kind # "dead" /\ destroy(t, s) /\ UNCHANGED <<prog, inst>>
  \/ \E s \in Slots : unlock(t, s) /\ UNCHANGED <<prog, inst>>
  \/ \E s \in Slots, v \in Values : ref_write(t, s, v) /\ UNCHANGED <<prog, inst>>
  \/ \E s \in Fresh, cs \in ListsOver(UserCells) : rmutex_guard_ctor(t, s, cs) /\ UNCHANGED <<prog, inst>>
  \/ lock_all_block(t) /\ UNCHANGED <<prog, inst>>
  \/ lock_all_try(t) /\ UNCHANGED <<prog, inst>>
  \/ lock_all_try_fail(t) /\ UNCHANGED <<prog, inst>>
  \/ lock_all_backoff(t) /\ UNCHANGED <<prog, inst>>
  \/ \E s \in Slots, i \in 1..NumCells, v \in Values : guard_write(t, s, i, v) /\ UNCHANGED <<prog, inst>>
  \/ \E s \in Fresh, c \in UserCells : rmutex_guard1_ctor(t, s, c) /\ UNCHANGED <<prog, inst>>

NextData == \E t \in Users : DataCall(t)

SpecData == InitData /\ [][NextData]_vars

\* The first thread locks cells singly with up to two handles, writes through
\* them, moves and move-assigns the handles and the cells, retries and
\* destroys; the other threads lock one cell at a time, write and unlock.
InitMove ==
  /\ InitCells(UserCells)
  /\ inst = NoInst
  /\ prog = [t \in Threads |-> NoProg]

MoveCall(t) ==
  \/ \E c \in UserCells, s \in Slots : try_acquire(t, c, s) /\ UNCHANGED <<prog, inst>>
  \/ \E s \in Slots : destroy(t, s) /\ UNCHANGED <<prog, inst>>
  \/ \E s \in Slots, v \in Values : ref_write(t, s, v) /\ UNCHANGED <<prog, inst>>
  \/ \E s \in Slots, v \in Values : guard_write(t, s, 1, v) /\ UNCHANGED <<prog, inst>>
  \/ \E s \in Slots, c \in UserCells : rmutex_guard1_try_ctor(t, s, c) /\ UNCHANGED <<prog, inst>>
  \/ \E s \in Slots : rmutex_guard1_try_lock(t, s) /\ UNCHANGED <<prog, inst>>
  \/ \E s \in Slots : rmutex_guard1_lock(t, s) /\ UNCHANGED <<prog, inst>>
  \/ unique_lock_lock(t) /\ UNCHANGED <<prog, inst>>
  \/ \E s, d \in Slots : rmutex_ref_move_ctor(t, s, d) /\ UNCHANGED <<prog, inst>>
  \/ \E s, d \in Slots : guard_move_ctor(t, s, d) /\ UNCHANGED <<prog, inst>>
  \/ \E s, d \in Slots : handle_move_assign(t, d, s) /\ UNCHANGED <<prog, inst>>
  \/ assign_data(t) /\ UNCHANGED <<prog, inst>>
  \/ \E c, o \in UserCells : NoHandles(t) /\ rmutex_move_assign(t, c, o) /\ UNCHANGED <<prog, inst>>
  \/ std_lock_first(t) /\ UNCHANGED <<prog, inst>>
  \/ std_lock_try(t) /\ UNCHANGED <<prog, inst>>
  \/ std_lock_try_fail(t) /\ UNCHANGED <<prog, inst>>
  \/ rmutex_move_data(t) /\ UNCHANGED <<prog, inst>>

OtherCall(t) ==
  \/ \E c \in UserCells, s \in Fresh : try_acquire(t, c, s) /\ UNCHANGED <<prog, inst>>
  \/ \E c \in UserCells, s \in Fresh : rmutex_lock(t, c, s) /\ UNCHANGED <<prog, inst>>
  \/ unique_lock_lock(t) /\ UNCHANGED <<prog, inst>>
  \/ \E s \in Slots : destroy(t, s) /\ UNCHANGED <<prog, inst>>
  \/ \E s \in Slots, v \in Values : ref_write(t, s, v) /\ UNCHANGED <<prog, inst>>

Movers == {t \in Users : \A u \in Users : t <= u}

NextMove ==
  \/ \E t \in Movers : MoveCall(t)
  \/ \E t \in Users \ Movers : OtherCall(t)

SpecMove == InitMove /\ [][NextMove]_vars
----------------------------------------------------------------------------
\* TEST_F(rmutexTest, rmutex_guardDeadlockPrevention): thread t1 locks
\* {m1, m2} and thread t2 {m2, m1} with a blocking rmutex_guard, each writes m1
\* and then m2 through get_data() and leaves the scope; the main thread joins
\* both and reads m1 and m2 through lock().  m1 is cell 1 and m2 cell 2; the
\* values written are inputs.
Writers == {1, 2}

MainThread == Cardinality(Writers) + 1

\* `rmutex<int> m1`, `rmutex<int> m2`: the cells they are.
m1 == 1

m2 == 2

GuardOrder(t) == IF t = 1 THEN <<m1, m2>> ELSE <<m2, m1>>

DeclaredOrderIndex(t, c) == c

\* The position of cell c in the tuple get_data() returns to thread t.
TupleIndex(t, c) == CHOOSE i \in 1..Len(GuardOrder(t)) : GuardOrder(t)[i] = c

InitTest ==
  /\ InitCells({m1, m2})
  /\ inst = NoInst
  /\ prog \in {p \in [Threads -> [at : {"start"}, a : Values, b : Values, backoff : {FALSE}, busy : {FALSE}]] :
                 \A t \in Threads \ Writers : p[t] = NoProg}

At(t, from, to) ==
  /\ prog[t].at = from
  /\ prog' = [prog EXCEPT ![t].at = to]
  /\ UNCHANGED inst

\* `rmutex_guard guard { m1, m2 };` / `rmutex_guard guard { m2, m1 };`
Test_guard_ctor(t) ==
  /\ At(t, "start", "guard")
  /\ \E s \in Fresh : rmutex_guard_ctor(t, s, GuardOrder(t))

\* std::lock inside the constructor backs off.
Test_lock_all_backoff(t) ==
  /\ lock_all_backoff(t)
  /\ prog' = [prog EXCEPT ![t].backoff = TRUE]
  /\ UNCHANGED inst

\* `num1 = 10;` / `num1 = 100;`
Test_write_m1(t) ==
  /\ At(t, "guard", "wrote_m1")
  /\ \E s \in Fresh : guard_write(t, s, TupleIndex(t, m1), prog[t].a)

\* `num2 = 20;` / `num2 = 200;`
Test_write_m2(t) ==
  /\ At(t, "wrote_m1", "wrote_m2")
  /\ \E s \in Fresh : guard_write(t, s, TupleIndex(t, m2), prog[t].b)

\* End of the thread's lambda: the guard is destroyed.
Test_guard_dtor(t) ==
  /\ At(t, "wrote_m2", "done")
  /\ \E s \in Fresh : destroy(t, s)

WritersDone == \A t \in Writers : prog[t].at = "done"

\* `t1.join(); t2.join(); ... m1.lock()`
Test_lock_m1 ==
  /\ WritersDone
  /\ At(MainThread, "start", "lock_m1")
  /\ \E s \in Fresh : rmutex_lock(MainThread, m1, s)

\* `int final_m1_val = *m1.lock();`: the value is read and the temporary
\* rmutex_ref destroyed.
Test_read_m1 ==
  /\ prog[MainThread].at = "lock_m1"
  /\ \E s \in Fresh :
       /\ handle[MainThread][s].kind = "ref" /\ handle[MainThread][s].locks[1].o
       /\ prog' = [prog EXCEPT ![MainThread].at = "read_m1",
                               ![MainThread].a = internal_data[deref(handle[MainThread][s])]]
       /\ UNCHANGED inst
       /\ destroy(MainThread, s)

Test_lock_m2 ==
  /\ At(MainThread, "read_m1", "lock_m2")
  /\ \E s \in Fresh : rmutex_lock(MainThread, m2, s)

\* `int final_m2_val = *m2.lock();`
Test_read_m2 ==
  /\ prog[MainThread].at = "lock_m2"
  /\ \E s \in Fresh :
       /\ handle[MainThread][s].kind = "ref" /\ handle[MainThread][s].locks[1].o
       /\ prog' = [prog EXCEPT ![MainThread].at = "done",
                               ![MainThread].b = internal_data[deref(handle[MainThread][s])]]
       /\ UNCHANGED inst
       /\ destroy(MainThread, s)

WriterStep(t) ==
  \/ Test_guard_ctor(t)
  \/ lock_all_block(t) /\ UNCHANGED <<prog, inst>>
  \/ lock_all_try(t) /\ UNCHANGED <<prog, inst>>
  \/ lock_all_try_fail(t) /\ UNCHANGED <<prog, inst>>
  \/ Test_lock_all_backoff(t)
  \/ Test_write_m1(t)
  \/ Test_write_m2(t)
  \/ Test_guard_dtor(t)

MainStep ==
  \/ Test_lock_m1
  \/ unique_lock_lock(MainThread) /\ UNCHANGED <<prog, inst>>
  \/ Test_read_m1
  \/ Test_lock_m2
  \/ Test_read_m2

NextTest == (\E t \in Writers : WriterStep(t)) \/ MainStep

SpecTest == InitTest /\ [][NextTest]_vars

\* Fair scheduling: a thread that can take a step eventually takes one, and a
\* try_lock inside std::lock that can succeed again and again eventually does.
SpecTestFair ==
  /\ SpecTest
  /\ \A t \in Writers : WF_vars(WriterStep(t))
  /\ \A t \in Writers : SF_vars(lock_all_try(t) /\ UNCHANGED <<prog, inst>>)
  /\ WF_vars(MainStep)

----------------------------------------------------------------------------
\* Any threads, each constructing one blocking rmutex_guard over any list of
\* distinct cells (one cell: the specialization) and destroying it later.
InitDL ==
  /\ InitCells({})
  /\ inst = NoInst
  /\ prog = [t \in Threads |-> NoProg]

DL_guard_ctor(t) ==
  /\ At(t, "start", "guard")
  /\ \E s \in Fresh, cs \in ListsOver(Cells) : rmutex_guard_ctor(t, s, cs)

DL_guard1_ctor(t) ==
  /\ At(t, "start", "guard")
  /\ \E s \in Fresh, c \in Cells : rmutex_guard1_ctor(t, s, c)

DL_guard_dtor(t) ==
  /\ At(t, "guard", "done")
  /\ \E s \in Fresh : destroy(t, s)

StepDL(t) ==
  \/ DL_guard_ctor(t)
  \/ DL_guard1_ctor(t)
  \/ unique_lock_lock(t) /\ UNCHANGED <<prog, inst>>
  \/ lock_all_block(t) /\ UNCHANGED <<prog, inst>>
  \/ lock_all_try(t) /\ UNCHANGED <<prog, inst>>
  \/ lock_all_try_fail(t) /\ UNCHANGED <<prog, inst>>
  \/ lock_all_backoff(t) /\ UNCHANGED <<prog, inst>>
  \/ DL_guard_dtor(t)

NextDL == \E t \in Threads : StepDL(t)

SpecDL == InitDL /\ [][NextDL]_vars

----------------------------------------------------------------------------
\* Cell moves next to handles.  Every thread runs one of three programs once:
\* it move-assigns one cell from another, or move-constructs a new cell from
\* a cell, or locks a cell through an rmutex_ref, writes and destroys the
\* handle.  The new cell lives in the storage of Cells \ UserCells, which no
\* other program names, and is constructed at most once.
NewCells == Cells \ UserCells

InitCell ==
  /\ InitCells(UserCells)
  /\ inst = NoInst
  /\ prog = [t \in Threads |-> NoProg]

\* Thread t goes from one place of its program to the next and notes whether
\* the cell it is about to need was locked by a handle.
AtBusy(t, from, to, busy) ==
  /\ prog[t].at = from
  /\ prog' = [prog EXCEPT ![t].at = to, ![t].busy = busy]
  /\ UNCHANGED inst

Cell_move_assign(t) ==
  \E c, o \in UserCells : rmutex_move_assign(t, c, o) /\ AtBusy(t, "start", "assign", Held(c) \/ Held(o))

Cell_move_data(t) == rmutex_move_data(t) /\ At(t, "assign", "done")

Cell_move_ctor(t) ==
  /\ \A u \in Threads : prog[u].at \notin {"ctor", "constructed"}
  /\ \E n \in NewCells, o \in UserCells : rmutex_move_ctor(t, n, o) /\ AtBusy(t, "start", "ctor", Held(o))

Cell_move_ctor_data(t) == rmutex_move_ctor_data(t) /\ At(t, "ctor", "constructed")

Cell_lock(t) ==
  \E c \in UserCells, s \in Fresh : rmutex_lock(t, c, s) /\ At(t, "start", "ref")

\* `if (auto ref = c.try_lock()) { ... }`: with an empty optional the program
\* is over.
Cell_try_lock(t) ==
  \E c \in UserCells, s \in Fresh :
    /\ try_acquire(t, c, s)
    /\ At(t, "start", IF handle'[t][s] # NoHandle THEN "ref" ELSE "done")

Cell_write(t) == \E s \in Fresh, v \in Values : ref_write(t, s, v) /\ UNCHANGED <<prog, inst>>

Cell_unlock(t) ==
  /\ pc[t] = Idle
  /\ \E s \in Fresh : destroy(t, s) /\ At(t, "ref", "done")

StepCell(t) ==
  \/ Cell_move_assign(t)
  \/ std_lock_first(t) /\ UNCHANGED <<prog, inst>>
  \/ std_lock_try(t) /\ UNCHANGED <<prog, inst>>
  \/ std_lock_try_fail(t) /\ UNCHANGED <<prog, inst>>
  \/ Cell_move_data(t)
  \/ Cell_move_ctor(t)
  \/ lock_guard_lock(t) /\ UNCHANGED <<prog, inst>>
  \/ Cell_move_ctor_data(t)
  \/ Cell_lock(t)
  \/ Cell_try_lock(t)
  \/ unique_lock_lock(t) /\ UNCHANGED <<prog, inst>>
  \/ Cell_write(t)
  \/ Cell_unlock(t)

NextCell == \E t \in Threads : StepCell(t)

SpecCell == InitCell /\ [][NextCell]_vars
----------------------------------------------------------------------------
\* The one-cell specialization next to the general algorithm on a list of one
\* cell.  Thread Special uses rmutex_guard<T> on cell CellSpecial, thread
\* General the general rmutex_guard over <<CellGeneral>>, thread Bystander
\* locks and unlocks both cells through rmutex_refs.  Every operation is
\* done first on the side of Special, then the same one on the side of
\* General; prog[Special] keeps the operation General has still to do (at),
\* and the handle variables it is done on (a, b).
Special == CHOOSE t \in Threads : \A u \in Threads : t <= u

General == Special + 1

Bystander == General + 1

CellSpecial == CHOOSE c \in UserCells : \A d \in UserCells : c <= d

CellGeneral == CellSpecial + 1

InitEq ==
  /\ InitCells({})
  /\ inst = NoInst
  /\ prog = [t \in Threads |-> NoProg]

\* Both sides have done the same operations.
InStep == prog[Special].at = "start"

\* Special has done operation op on slots a and b; General is to follow.
Leads(op, a, b) ==
  /\ InStep
  /\ prog' = [prog EXCEPT ![Special].at = op, ![Special].a = a, ![Special].b = b]
  /\ UNCHANGED inst

\* General follows with operation op; it is back in step once it is idle or
\* waits for a mutex.
Follows(op) ==
  /\ prog[Special].at = op
  /\ prog' = [prog EXCEPT ![Special].at =
                IF pc'[General].op \in {"try_lock_all", "rollback"} THEN "run" ELSE "start"]
  /\ UNCHANGED inst

Eq_special(op, a, b) ==
  \/ op = "ctor" /\ rmutex_guard1_ctor(Special, a, CellSpecial)
  \/ op = "try_ctor" /\ NoHandles(Special) /\ rmutex_guard1_try_ctor(Special, a, CellSpecial)
  \/ op = "acquire" /\ unique_lock_lock(Special)
  \/ op = "lock" /\ rmutex_guard1_lock(Special, a)
  \/ op = "try_lock" /\ rmutex_guard1_try_lock(Special, a)
  \/ op = "lock_throw" /\ guard_lock_throw(Special, a)
  \/ op = "try_lock_throw" /\ guard_try_lock_throw(Special, a)
  \/ op = "move" /\ guard_move_ctor(Special, a, b)
  \/ op = "destroy" /\ destroy(Special, a)
  \/ op = "by_try" /\ \E s \in Slots : try_acquire(Bystander, CellSpecial, s)
  \/ op = "by_destroy" /\ \E s \in Slots : HoldsLock(handle[Bystander][s], CellSpecial) /\ destroy(Bystander, s)

Eq_general(op, a, b) ==
  \/ op = "ctor" /\ rmutex_guard_ctor(General, a, <<CellGeneral>>)
  \/ op = "try_ctor" /\ rmutex_guard_try_ctor(General, a, <<CellGeneral>>)
  \/ op = "acquire" /\ lock_all_block(General)
  \/ op = "lock" /\ rmutex_guard_lock(General, a)
  \/ op = "try_lock" /\ rmutex_guard_try_lock(General, a)
  \/ op = "lock_throw" /\ guard_lock_throw(General, a)
  \/ op = "try_lock_throw" /\ guard_try_lock_throw(General, a)
  \/ op = "move" /\ guard_move_ctor(General, a, b)
  \/ op = "destroy" /\ destroy(General, a)
  \/ op = "by_try" /\ \E s \in Slots : try_acquire(Bystander, CellGeneral, s)
  \/ op = "by_destroy" /\ \E s \in Slots : HoldsLock(handle[Bystander][s], CellGeneral) /\ destroy(Bystander, s)

\* std::try_lock of General runs to its end.
Eq_run ==
  \/ try_lock_all_step(General)
  \/ try_lock_all_fail(General)
  \/ try_lock_all_rollback(General)

EqOps ==
  {"ctor", "try_ctor", "acquire", "lock", "try_lock", "lock_throw", "try_lock_throw",
   "move", "destroy", "by_try", "by_destroy"}

\* The slots an operation names: a fresh one for a construction, any for the
\* others, none (0) where the operation names no handle variable.
EqSlots(op) ==
  IF op \in {"ctor", "try_ctor"} THEN Fresh \X {0}
  ELSE IF op \in {"acquire", "by_try", "by_destroy"} THEN {<<0, 0>>}
  ELSE IF op = "move" THEN Slots \X Slots
  ELSE Slots \X {0}

NextEq ==
  \/ \E op \in EqOps : \E ab \in EqSlots(op) : Eq_special(op, ab[1], ab[2]) /\ Leads(op, ab[1], ab[2])
  \/ \E op \in EqOps : prog[Special].at = op /\ Eq_general(op, prog[Special].a, prog[Special].b) /\ Follows(op)
  \/ prog[Special].at = "run" /\ Eq_run /\ Follows("run")

SpecEq == InitEq /\ [][NextEq]_vars
----------------------------------------------------------------------------
\* The compile-time constraints.  A type is the sequence of its type
\* constructors from the outside in, ending in a fundamental type:
\* <<"const", "rmutex", "int">> is `const rmutex<int>`, <<"ptr", "const",
\* "int">> is `const int*`.
MaxDepth == 2

MaxPack == 2

TypeCtors == {"const", "ptr", "rmutex"}

\* const applied to a const type is the same type.
Normal(ty) == \A i \in 1..(Len(ty) - 1) : ~(ty[i] = "const" /\ ty[i + 1] = "const")

TypesUpTo(n) ==
  UNION {{q \o <<"int">> : q \in {x \in [1..k -> TypeCtors] : Normal(x)}} : k \in 0..n}

Types == TypesUpTo(MaxDepth)

Packs == UNION {[1..n -> Types] : n \in 0..MaxPack}

\* The primary template is_rmutex<U>: std::false_type.
is_rmutex_primary(U) == FALSE

\* is_rmutex<U>::value: the partial specialization is_rmutex<rmutex<T>> is
\* chosen when U is rmutex<T>, the primary template otherwise.
is_rmutex(U) == IF U[1] = "rmutex" THEN TRUE ELSE is_rmutex_primary(U)

\* all_are_rmutex<Ts...>: the fold (is_rmutex<Ts>::value && ...), true for
\* the empty pack.
RECURSIVE all_are_rmutex(_)
all_are_rmutex(Ts) ==
  IF Ts = <<>> THEN TRUE ELSE is_rmutex(Head(Ts)) /\ all_are_rmutex(Tail(Ts))

\* A trait that lets every type through.
is_anything(T) == TRUE

\* is_not_mutex<T>.
is_not_mutex(T) == ~is_rmutex(T)

\* std::is_const<T>::value: T is const-qualified at the top level.
is_const(T) == T[1] = "const"

\* The two static_asserts of rmutex<T>.
rmutex_static_assert(T) == ~is_const(T) /\ is_not_mutex(T)

\* `requires all_are_rmutex<Ts...>` of rmutex_guard.
rmutex_guard_requires(Ts) == all_are_rmutex(Ts)

Verdict(ok) == IF ok THEN "accepted" ELSE "rejected"

InitTypes ==
  /\ InitCells({})
  /\ prog = [t \in Threads |-> NoProg]
  /\ inst \in {[NoInst EXCEPT !.Ts = Ts] : Ts \in Packs} \cup {[NoInst EXCEPT !.T = T] : T \in Types}

\* The compiler is asked for rmutex_guard<Ts...>.
instantiate_rmutex_guard ==
  /\ inst.guard = "none"
  /\ inst' = [inst EXCEPT !.guard = Verdict(rmutex_guard_requires(inst.Ts))]
  /\ UNCHANGED <<internal_mutex, internal_data, handle, pc, ret, lastw, wr, prog>>

\* The compiler is asked for rmutex<T>.
instantiate_rmutex ==
  /\ inst.cell = "none"
  /\ inst' = [inst EXCEPT !.cell = Verdict(rmutex_static_assert(inst.T))]
  /\ UNCHANGED <<internal_mutex, internal_data, handle, pc, ret, lastw, wr, prog>>

NextTypes ==
  \/ instantiate_rmutex_guard
  \/ instantiate_rmutex

SpecTypes == InitTypes /\ [][NextTypes]_vars
----------------------------------------------------------------------------
\* A handle moved step by step.  The move constructors of rmutex_ref and of
\* both rmutex_guard forms move-construct their unique_locks:
\* unique_lock(unique_lock&& u) copies u's mutex pointer and owns flag and
\* then clears both in u.  Between the two the source and the destination
\* both look like owners; no step touches the mutex.  The return of
\* try_acquire is such a move out of the local unique_lock `lock`, which is
\* destroyed afterwards.

\* A unique_lock that keeps its mutex and its flag when it is moved from.
unique_lock_kept(l) == l

\* The source of unique_lock(unique_lock&& u) after the body:
\* `u._M_device = 0; u._M_owns = false`.
unique_lock_moved_from(l) == moved_lock

\* The member initializers of a move constructor: the new handle in slot d
\* has the mutex pointers, the flags and the data references of the one in
\* slot s.
move_take(t, s, d) ==
  /\ pc[t] = Idle
  /\ s # d
  /\ handle[t][s].kind \in {"ref", "guard", "guard1"}
  /\ handle[t][d] = NoHandle
  /\ handle' = [handle EXCEPT ![t][d] = handle[t][s]]
  /\ pc' = [pc EXCEPT ![t] = [op |-> "move", s |-> s, first |-> d, k |-> 0]]
  /\ ret' = [ret EXCEPT ![t] = Entered("move", d)]
  /\ UNCHANGED <<internal_mutex, internal_data, lastw, wr>>

\* The rest of the move constructor: the unique_locks of the source are
\* cleared, and the body clears the flag of a guard.
move_clear(t) ==
  /\ pc[t].op = "move"
  /\ LET s == pc[t].s
         h == handle[t][s]
     IN handle' = [handle EXCEPT ![t][s] =
                     [h EXCEPT !.locks = [i \in 1..Len(h.locks) |-> unique_lock_moved_from(h.locks[i])],
                               !.owns_locks = FALSE]]
  /\ pc' = [pc EXCEPT ![t] = Idle]
  /\ ret' = [ret EXCEPT ![t] = [ret[t] EXCEPT !.op = "moved", !.ok = TRUE]]
  /\ UNCHANGED <<internal_mutex, internal_data, lastw, wr>>

InitPass ==
  /\ InitCells({})
  /\ inst = NoInst
  /\ prog = [t \in Threads |-> NoProg]

\* The thread that passes its handles on.
PassCall(t) ==
  \/ \E c \in UserCells, s \in Slots : try_acquire(t, c, s) /\ UNCHANGED <<prog, inst>>
  \/ \E c \in UserCells, s \in Fresh : rmutex_lock(t, c, s) /\ UNCHANGED <<prog, inst>>
  \/ unique_lock_lock(t) /\ UNCHANGED <<prog, inst>>
  \/ \E c \in UserCells, s \in Fresh : rmutex_guard1_ctor(t, s, c) /\ UNCHANGED <<prog, inst>>
  \/ \E s \in Fresh, cs \in ListsOver(UserCells) : rmutex_guard_ctor(t, s, cs) /\ UNCHANGED <<prog, inst>>
  \/ lock_all_block(t) /\ UNCHANGED <<prog, inst>>
  \/ lock_all_try(t) /\ UNCHANGED <<prog, inst>>
  \/ lock_all_try_fail(t) /\ UNCHANGED <<prog, inst>>
  \/ lock_all_backoff(t) /\ UNCHANGED <<prog, inst>>
  \/ \E s, d \in Slots : move_take(t, s, d) /\ UNCHANGED <<prog, inst>>
  \/ move_clear(t) /\ UNCHANGED <<prog, inst>>
  \/ \E s \in Slots : destroy(t, s) /\ UNCHANGED <<prog, inst>>

\* The threads that ask for the same cells meanwhile.
AskCall(t) ==
  \/ \E c \in UserCells, s \in Fresh : try_acquire(t, c, s) /\ UNCHANGED <<prog, inst>>
  \/ \E c \in UserCells, s \in Fresh : rmutex_lock(t, c, s) /\ UNCHANGED <<prog, inst>>
  \/ unique_lock_lock(t) /\ UNCHANGED <<prog, inst>>
  \/ \E s \in Slots : destroy(t, s) /\ UNCHANGED <<prog, inst>>

NextPass ==
  \/ \E t \in Movers : PassCall(t)
  \/ \E t \in Threads \ Movers : AskCall(t)

SpecPass == InitPass /\ [][NextPass]_vars
----------------------------------------------------------------------------
\* The end of the scope of an rmutex_ref variable whose destructor was
\* already called (unlock(ref), `ref.~rmutex_ref()`): the destructor runs a
\* second time on an object whose lifetime has ended, which is undefined.
\* The first run may or may not have stored `_M_owns = false` (the store is
\* dead once the lifetime has ended), so the second run either finds nothing
\* to unlock or unlocks the mutex again, whoever holds it by then.

\* The second destructor run finds _M_owns false.
second_dtor_skips(h) == internal_mutex

\* The second destructor run finds _M_owns still true and unlocks.
second_dtor_unlocks(h) ==
  [c \in Cells |-> IF c = h.locks[1].m THEN FALSE ELSE internal_mutex[c]]

\* What the second destructor run can do to the mutexes.
second_dtor(h) == {second_dtor_skips(h), second_dtor_unlocks(h)}

destroy_again(t, s) ==
  /\ pc[t] = Idle
  /\ handle[t][s].kind = "dead"
  /\ internal_mutex' \in second_dtor(handle[t][s])
  /\ handle' = [handle EXCEPT ![t][s] = NoHandle]
  /\ ret' = [ret EXCEPT ![t] =
               [NoRet EXCEPT !.call = "destroy_again", !.op = "destroyed", !.s = s,
                             !.c = handle[t][s].locks[1].m]]
  /\ UNCHANGED <<internal_data, pc, lastw, wr>>

InitScope ==
  /\ InitCells({})
  /\ inst = NoInst
  /\ prog = [t \in Threads |-> NoProg]

ScopeCall(t) ==
  \/ \E c \in UserCells, s \in Slots : try_acquire(t, c, s) /\ UNCHANGED <<prog, inst>>
  \/ \E c \in UserCells, s \in Fresh : rmutex_lock(t, c, s) /\ UNCHANGED <<prog, inst>>
  \/ unique_lock_lock(t) /\ UNCHANGED <<prog, inst>>
  \/ \E s, d \in Slots : rmutex_ref_move_ctor(t, s, d) /\ UNCHANGED <<prog, inst>>
  \/ \E s \in Slots : unlock(t, s) /\ UNCHANGED <<prog, inst>>
  \/ \E s \in Slots : handle[t][s].kind # "dead" /\ destroy(t, s) /\ UNCHANGED <<prog, inst>>
  \/ \E s \in Slots : destroy_again(t, s) /\ UNCHANGED <<prog, inst>>

NextScope == \E t \in Users : ScopeCall(t)

SpecScope == InitScope /\ [][NextScope]_vars
----------------------------------------------------------------------------
\* One cell passed more than once to the blocking constructor of a guard
\* (nothing in the constructor prevents it), next to threads that lock and
\* unlock the same cells.  Every unique_lock of the guard has its own flag;
\* std::mutex::try_lock on a mutex the caller holds fails like for any other
\* owner.
MaxDup == 3

\* The lists of 2..MaxDup user cells in which some cell appears twice.
DupLists == UNION {{q \in [1..n -> UserCells] : ~NoDup(q)} : n \in 2..MaxDup}

InitDup ==
  /\ InitCells({})
  /\ inst = NoInst
  /\ prog = [t \in Threads |-> NoProg]

DupCall(t) ==
  \/ \E s \in Fresh, cs \in DupLists : rmutex_guard_ctor(t, s, cs) /\ UNCHANGED <<prog, inst>>
  \/ lock_all_block(t) /\ UNCHANGED <<prog, inst>>
  \/ lock_all_try(t) /\ UNCHANGED <<prog, inst>>
  \/ lock_all_try_fail(t) /\ UNCHANGED <<prog, inst>>
  \/ lock_all_backoff(t) /\ UNCHANGED <<prog, inst>>

NextDup ==
  \/ \E t \in Movers : DupCall(t)
  \/ \E t \in Threads \ Movers : AskCall(t)

SpecDup == InitDup /\ [][NextDup]_vars
----------------------------------------------------------------------------
\* Try acquisitions of every kind next to writes: each thread try-locks
\* cells, try-constructs and try-locks guards, stores through what it got
\* and destroys it; a thread has one handle at a time.
InitTry ==
  /\ InitCells(UserCells)
  /\ inst = NoInst
  /\ prog = [t \in Threads |-> NoProg]

TryCall(t) ==
  \/ \E c \in UserCells, s \in Fresh : NoHandles(t) /\ try_acquire(t, c, s) /\ UNCHANGED <<prog, inst>>
  \/ \E s \in Slots, v \in Values : ref_write(t, s, v) /\ UNCHANGED <<prog, inst>>
  \/ \E s \in Fresh, cs \in ListsOver(UserCells) : rmutex_guard_try_ctor(t, s, cs) /\ UNCHANGED <<prog, inst>>
  \/ \E s \in Slots : rmutex_guard_try_lock(t, s) /\ UNCHANGED <<prog, inst>>
  \/ try_lock_all_step(t) /\ UNCHANGED <<prog, inst>>
  \/ try_lock_all_fail(t) /\ UNCHANGED <<prog, inst>>
  \/ try_lock_all_rollback(t) /\ UNCHANGED <<prog, inst>>
  \/ \E c \in UserCells, s \in Fresh : NoHandles(t) /\ rmutex_guard1_try_ctor(t, s, c) /\ UNCHANGED <<prog, inst>>
  \/ \E s \in Slots : rmutex_guard1_try_lock(t, s) /\ UNCHANGED <<prog, inst>>
  \/ \E s \in Slots, i \in 1..NumCells, v \in Values : guard_write(t, s, i, v) /\ UNCHANGED <<prog, inst>>
  \/ \E s \in Slots : destroy(t, s) /\ UNCHANGED <<prog, inst>>

NextTry == \E t \in Users : TryCall(t)

SpecTry == InitTry /\ [][NextTry]_vars

----------------------------------------------------------------------------
\* A blocking guard next to single-cell locking.  One thread constructs a
\* blocking rmutex_guard over any list of distinct cells and destroys it;
\* another takes an rmutex_ref on one cell with lock(), then, holding it,
\* calls lock() on a different cell, and lets both go out of scope.

\* The thread that locks cell by cell: the first user that is no mover.
Lockers == {t \in Users \ Movers : \A u \in Users \ Movers : t <= u}

\* The handle variable a thread declares second.
Second == {s \in Slots \ Fresh : \A x \in Slots \ Fresh : s <= x}

\* rmutex<T>::lock() by a thread that holds a handle already, into its next
\* free handle variable: the same constructor, blocking in unique_lock.
rmutex_lock_next(t, c, s) ==
  /\ pc[t] = Idle
  /\ handle[t][s] = NoHandle
  /\ \A x \in Slots : x < s => handle[t][x] # NoHandle
  /\ handle' = [handle EXCEPT ![t][s] =
                  [kind |-> "ref", refs |-> <<c>>, locks |-> <<defer_lock(c)>>, owns_locks |-> FALSE]]
  /\ pc' = [pc EXCEPT ![t] = [op |-> "lock", s |-> s, first |-> 1, k |-> 0]]
  /\ ret' = [ret EXCEPT ![t] = Entered("lock", s)]
  /\ UNCHANGED <<internal_mutex, internal_data, lastw, wr>>

InitCycle ==
  /\ InitCells(Cells)
  /\ inst = NoInst
  /\ prog = [t \in Threads |-> NoProg]

\* `rmutex_guard guard { a, b };`
Cycle_guard_ctor(t) ==
  /\ At(t, "start", "guard")
  /\ \E s \in Fresh, cs \in ListsOver(Cells) : rmutex_guard_ctor(t, s, cs)

\* The guard goes out of scope.
Cycle_guard_dtor(t) ==
  /\ At(t, "guard", "done")
  /\ \E s \in Fresh : destroy(t, s)

\* `auto rb = b.lock();`
Cycle_lock_b(t) ==
  /\ At(t, "start", "lock_b")
  /\ \E s \in Fresh, c \in Cells : rmutex_lock(t, c, s)

\* `auto ra = a.lock();` with rb alive, a another cell than b.
Cycle_lock_a(t) ==
  /\ At(t, "lock_b", "lock_a")
  /\ \E s \in Second, x \in Fresh, c \in Cells :
       /\ handle[t][x].kind = "ref"
       /\ handle[t][x].locks[1].o
       /\ c # deref(handle[t][x])
       /\ rmutex_lock_next(t, c, s)

\* ra goes out of scope: the handle declared last is destroyed first.
Cycle_release_a(t) ==
  /\ At(t, "lock_a", "released_a")
  /\ \E s \in Second : handle[t][s].locks[1].o /\ destroy(t, s)

\* rb goes out of scope.
Cycle_release_b(t) ==
  /\ At(t, "released_a", "done")
  /\ \E s \in Fresh : destroy(t, s)

GuardStep(t) ==
  \/ Cycle_guard_ctor(t)
  \/ lock_all_block(t) /\ UNCHANGED <<prog, inst>>
  \/ lock_all_try(t) /\ UNCHANGED <<prog, inst>>
  \/ lock_all_try_fail(t) /\ UNCHANGED <<prog, inst>>
  \/ lock_all_backoff(t) /\ UNCHANGED <<prog, inst>>
  \/ Cycle_guard_dtor(t)

LockerStep(t) ==
  \/ Cycle_lock_b(t)
  \/ unique_lock_lock(t) /\ UNCHANGED <<prog, inst>>
  \/ Cycle_lock_a(t)
  \/ Cycle_release_a(t)
  \/ Cycle_release_b(t)

NextCycle ==
  \/ \E t \in Movers : GuardStep(t)
  \/ \E t \in Lockers : LockerStep(t)

SpecCycle == InitCycle /\ [][NextCycle]_vars

\* Fair scheduling: a thread that can take a step eventually takes one.
SpecCycleFair ==
  /\ SpecCycle
  /\ \A t \in Movers : WF_vars(GuardStep(t))
  /\ \A t \in Lockers : WF_vars(LockerStep(t))
----------------------------------------------------------------------------
\* Properties.

\* The handle of thread t in slot s is being operated on.
InProgress(t, s) == pc[t].op # "idle" /\ pc[t].s = s

\* The cell a thread blocked in a single-mutex lock() waits for.
Awaited(t) == handle[t][pc[t].s].locks[1].m

\* Handle h can be read through: an rmutex_ref that owns its lock, a guard
\* whose get_data() is populated.
Readable(h) ==
  \/ h.kind = "ref" /\ h.locks[1].o
  \/ h.kind \in {"guard", "guard1"} /\ get_data(h).present

\* C1: for every cell, in every interleaving of lock(), try_lock() and handle
\* destruction, at most one handle holds the cell's lock at any instant.
MutualExclusion == \A c \in Cells : Cardinality(Holders(c)) <= 1

\* An rmutex_ref holds a cell while another thread is blocked in lock() on
\* the same cell.
C1_Witness ==
  \E t, u \in Threads, s \in Slots :
    /\ t # u
    /\ handle[t][s].kind = "ref" /\ handle[t][s].locks[1].o
    /\ pc[u].op = "lock"
    /\ handle[u][pc[u].s].kind = "ref"
    /\ Awaited(u) = handle[t][s].locks[1].m

\* C2: when no operation on a multi-cell guard is in progress, owns() is true
\* iff the guard holds the lock of every one of its cells; and in no state
\* does the guard hold some but not all of its locks while get_data() is
\* populated.
GuardAllOrNothing ==
  \A t \in Threads, s \in Slots :
    LET h == handle[t][s]
        n == Len(h.locks)
    IN h.kind = "guard" =>
         /\ ~InProgress(t, s) => (owns(h) <=> \A i \in 1..n : HoldsLock(h, h.refs[i]))
         /\ ~( /\ get_data(h).present
               /\ \E i \in 1..n : h.locks[i].o
               /\ \E i \in 1..n : ~h.locks[i].o )

\* A guard in the middle of std::lock holds exactly one of its two locks, and
\* its get_data() is empty.
C2_Witness ==
  \E t \in Threads, s \in Slots :
    LET h == handle[t][s]
    IN /\ h.kind = "guard"
       /\ Len(h.locks) = 2
       /\ InProgress(t, s)
       /\ h.locks[1].o # h.locks[2].o
       /\ ~get_data(h).present

\* C6: in every state of a guard, get_data() is empty when owns() is false;
\* when owns() is true it is populated with one reference per cell, the i-th
\* designating the cell whose lock the guard's i-th lock holds.
GetDataGated ==
  \A t \in Threads, s \in Slots :
    LET h == handle[t][s]
    IN h.kind \in {"guard", "guard1"} =>
         /\ ~owns(h) => get_data(h) = NullOpt
         /\ owns(h) =>
              /\ get_data(h).present
              /\ Len(get_data(h).tuple) = Len(h.locks)
              /\ \A i \in 1..Len(h.locks) :
                   h.locks[i] = [m |-> get_data(h).tuple[i], o |-> TRUE]

\* A moved-from guard whose get_data() is empty next to the guard it was
\* moved into, whose get_data() is populated.
C6_Witness ==
  \E t \in Threads, s, d \in Slots :
    /\ handle[t][s].kind = "guard"
    /\ handle[t][s].locks[1].m = NoCell
    /\ ~get_data(handle[t][s]).present
    /\ handle[t][d].kind = "guard"
    /\ get_data(handle[t][d]).present

\* C7: a try_lock() on a cell whose lock is held by a live handle returns an
\* empty optional: no handle is produced and no error is raised.
TryLockHeldIsEmpty ==
  \A t \in Threads :
    (ret[t].op = "try_lock" /\ ret[t].held) =>
      /\ ~ret[t].ok
      /\ ~ret[t].err
      /\ handle[t][ret[t].s] = NoHandle

\* A try_lock() has returned empty while the rmutex_ref that holds the cell
\* is still alive.
C7_Witness ==
  \E t, u \in Threads, s \in Slots :
    /\ t # u
    /\ ret[t].op = "try_lock" /\ ret[t].held /\ ~ret[t].ok
    /\ handle[u][s].kind = "ref"
    /\ HoldsLock(handle[u][s], ret[t].c)

\* C10: a thread blocked in lock() on a cell stays blocked in every step taken
\* while a handle holds the cell's lock; it leaves lock() only by a step taken
\* when no handle holds the lock, and then holds the lock itself.
BlockedUntilRelease ==
  [][\A t \in Threads :
       pc[t].op = "lock" =>
         /\ Held(Awaited(t)) => pc'[t] = pc[t]
         /\ pc'[t] # pc[t] =>
              /\ ~Held(Awaited(t))
              /\ pc'[t] = Idle
              /\ HoldsLock(handle'[t][pc[t].s], Awaited(t))]_vars

\* A thread is blocked in rmutex::lock() on a cell that the rmutex_ref of
\* another thread, returned by lock(), holds.
C10_Witness ==
  \E t, u \in Threads :
    /\ t # u
    /\ pc[t].op = "lock"
    /\ handle[t][pc[t].s].kind = "ref"
    /\ ret[u].op = "lock"
    /\ ret[u].c = Awaited(t)
    /\ HoldsLock(handle[u][ret[u].s], Awaited(t))

\* C8: a try_lock() on a cell that no live handle holds (its last holder was
\* destroyed and nothing acquired it since) returns an rmutex_ref that holds
\* the cell, and the value read through it is the last value written to the
\* cell under its lock.
TryLockAfterRelease ==
  \A t \in Threads :
    ret[t].op = "try_lock" =>
      LET h == handle[t][ret[t].s]
      IN /\ ~ret[t].held => ret[t].ok
         /\ ret[t].ok =>
              /\ h.kind = "ref"
              /\ HoldsLock(h, ret[t].c)
              /\ internal_data[deref(h)] = lastw[ret[t].c]

\* A try_lock() has succeeded on a cell that was written through a handle
\* which was then destroyed.
C8_Witness ==
  \E t \in Threads :
    /\ ret[t].op = "try_lock" /\ ret[t].ok /\ ~ret[t].held
    /\ wr[ret[t].c] = "released"

\* C9: round trip: the value read through a handle for a cell it has locked is
\* the value last written to that cell through a handle that held its lock.
RoundTrip ==
  \A t \in Threads, s \in Slots :
    LET h == handle[t][s]
    IN Readable(h) =>
         \A i \in 1..Len(h.locks) :
           (h.locks[i].m # NoCell) => internal_data[h.refs[i]] = lastw[h.locks[i].m]

\* Cells written through a handle that was destroyed afterwards are locked
\* again, jointly by a guard that can be read through.
C9_Witness ==
  \E t \in Threads, s \in Slots :
    /\ handle[t][s].kind = "guard" /\ Readable(handle[t][s])
    /\ \A i \in 1..Len(handle[t][s].refs) : wr[handle[t][s].refs[i]] = "released"

NoMixture ==
  prog[MainThread].at = "done" =>
    <<prog[MainThread].a, prog[MainThread].b>> \in {<<prog[t].a, prog[t].b>> : t \in Writers}

\* The main thread has read both cells after two threads wrote pairs that
\* differ in both components.
C5_Witness ==
  /\ prog[MainThread].at = "done"
  /\ \A t, u \in Writers : t # u => (prog[t].a # prog[u].a /\ prog[t].b # prog[u].b)

\* C4: with any threads constructing blocking guards over any lists of cells,
\* no reachable state is a deadlock: while some thread has not finished, some
\* thread can take a step.
NoDeadlock == (\E t \in Threads : prog[t].at # "done") => ENABLED NextDL

\* Every thread is inside std::lock, holds one lock and needs next a lock that
\* another thread holds: a cycle of guards.
C4_Witness ==
  \A t \in Threads :
    /\ pc[t].op = "lock_all"
    /\ pc[t].k >= 1
    /\ Held(handle[t][pc[t].s].locks[LockAllTarget(t)].m)

\* The guard holds the lock of every cell it was given, lock i on cell i.
HoldsAll(h) == \A i \in 1..Len(h.refs) : h.locks[i] = [m |-> h.refs[i], o |-> TRUE]

\* The guard holds none of its locks.
HoldsNone(h) == \A i \in 1..Len(h.locks) : ~h.locks[i].o

\* The last call of thread t was `call` and has returned (it did not throw).
Returned(t, call) == ret[t].call = call /\ ret[t].op # "none" /\ ~ret[t].err

\* C11: when the blocking guard constructor has returned, owns() is true and
\* the guard holds the lock of every cell passed to it, whether or not some
\* of them were locked when the constructor was entered.
CtorOwnsAll ==
  \A t \in Threads :
    Returned(t, "ctor") =>
      /\ owns(handle[t][ret[t].s])
      /\ HoldsAll(handle[t][ret[t].s])

\* A blocking constructor over two cells has returned although one of the
\* cells was locked when it was entered.
C11_Witness ==
  \E t \in Threads :
    /\ Returned(t, "ctor")
    /\ prog[t].busy
    /\ Len(handle[t][ret[t].s].refs) >= 2

\* The last call of thread t was a try-construction or a try_lock() of a
\* guard and has returned.
TryReturned(t) == Returned(t, "try_ctor") \/ Returned(t, "guard_try_lock")

\* No mutex of the guard's cells is locked without a handle holding it.
NothingLeaked(h) == \A i \in 1..Len(h.refs) : internal_mutex[h.refs[i]] => Held(h.refs[i])

\* C12: when a guard's try-construction or try_lock() has returned, either
\* the guard owns and holds all its locks, or it does not own and holds none
\* of them, every lock taken earlier in the attempt having been released.
TryAllOrNothing ==
  \A t \in Threads :
    TryReturned(t) =>
      LET h == handle[t][ret[t].s]
      IN /\ ret[t].ok => (owns(h) /\ HoldsAll(h))
         /\ ~ret[t].ok => (~owns(h) /\ HoldsNone(h) /\ NothingLeaked(h))

\* A try over two cells has failed on the second cell, after it had taken the
\* lock of the first.
C12_Witness ==
  \E t \in Threads :
    LET h == handle[t][ret[t].s]
    IN /\ TryReturned(t)
       /\ ~ret[t].ok
       /\ h.kind = "guard"
       /\ ret[t].c = h.refs[2]

\* The steps of a guard's try_lock_all in progress.
TryStep(t) ==
  \/ try_lock_all_step(t)
  \/ try_lock_all_fail(t)
  \/ try_lock_all_rollback(t)

\* What is left of a try_lock_all: the locks not yet tried, then the return.
TryMeasure(p, n) ==
  IF p.op = "try_lock_all" THEN 2 * (n - p.k) + 1
  ELSE IF p.op = "rollback" THEN 1
  ELSE 0

\* C13: the try-variants never block.  rmutex::try_lock() is one step that an
\* idle thread can take whatever the state of the cell; a guard's
\* try-construction or try_lock() in progress can always take its next step
\* by itself, and every step it takes brings it nearer to its return, so it
\* returns within 2 * N + 1 steps whatever the other threads do.
TryNeverBlocks ==
  [][\A t \in Users :
       /\ pc[t] = Idle =>
            \A c \in UserCells :
              ENABLED (\E s \in Slots : try_acquire(t, c, s) /\ UNCHANGED <<prog, inst>>)
              \/ \A s \in Slots : handle[t][s] # NoHandle
       /\ pc[t].op \in {"try_lock_all", "rollback"} =>
            LET n == Len(handle[t][pc[t].s].locks)
            IN /\ ENABLED (TryStep(t) /\ UNCHANGED <<prog, inst>>)
               /\ TryMeasure(pc[t], n) <= 2 * n + 1
               /\ pc'[t] # pc[t] => TryMeasure(pc'[t], n) < TryMeasure(pc[t], n)]_vars

\* A try over two cells is in progress and the cell it tries next is locked
\* by another thread.
C13_Witness ==
  \E t, u \in Threads, s \in Slots :
    /\ t # u
    /\ pc[t].op = "try_lock_all"
    /\ pc[t].k = 1
    /\ HoldsLock(handle[u][s], handle[t][pc[t].s].locks[2].m)

\* C14: destroying a handle that holds locks releases every one of them: in
\* the state right after the destruction each cell it held is unlocked and
\* held by no handle, so that another thread can acquire it.
DestroyReleasesAll ==
  [][\A t \in Threads, s \in Slots :
       (handle[t][s] # NoHandle /\ handle'[t][s] = NoHandle) =>
         \A c \in Cells :
           HoldsLock(handle[t][s], c) => (~internal_mutex'[c] /\ ~Held(c)')]_vars

\* A thread has destroyed a handle that held a cell, and another thread's
\* lock() on that cell has returned since.
C14_Witness ==
  \E t, u \in Threads :
    /\ t # u
    /\ ret[t].call = "destroy" /\ ret[t].held
    /\ ret[u].op = "lock" /\ ret[u].c = ret[t].c
    /\ HoldsLock(handle[u][ret[u].s], ret[t].c)

\* C17: a move construction transfers the lock handle: afterwards the source
\* owns nothing, the new handle owns exactly when the source owned, and holds
\* the locks the source held; no mutex changes in the step.
MoveCtorTransfers ==
  [][\A t \in Threads, s, d \in Slots :
       ( /\ s # d
         /\ handle[t][d] = NoHandle /\ handle'[t][d] # NoHandle
         /\ handle[t][s] # NoHandle /\ handle'[t][s] # handle[t][s] ) =>
         /\ HoldsNone(handle'[t][s])
         /\ ~owns(handle'[t][s])
         /\ handle'[t][d].kind = handle[t][s].kind
         /\ handle'[t][d].locks = handle[t][s].locks
         /\ owns(handle'[t][d]) = owns(handle[t][s])
         /\ internal_mutex' = internal_mutex]_vars

\* A moved-from rmutex_ref next to the one constructed from it, which holds
\* the lock, while another thread has a moved-from guard next to the guard
\* constructed from it (one that had not acquired its locks, or owns them).
C17_Witness ==
  /\ \E t \in Threads, s, d \in Slots :
       /\ handle[t][s].kind = "ref" /\ handle[t][s].locks[1].m = NoCell
       /\ handle[t][d].kind = "ref" /\ HoldsAll(handle[t][d])
  /\ \E t \in Threads, s, d \in Slots :
       /\ handle[t][s].kind = "guard" /\ handle[t][s].locks[1].m = NoCell
       /\ handle[t][d].kind = "guard" /\ handle[t][d].locks[1].m # NoCell

\* C15: every write to a cell's value is made by a thread that holds the
\* lock of that cell at the moment of the write.
WritesUnderLock == \A c \in Cells : wr[c] # "unlocked"

\* C16: the value of a cell changes only in a step that is an explicit write
\* through a handle's data access, or a cell move; constructing, moving,
\* move-assigning and destroying a handle leave every value as it was.
ValueOnlyWritten ==
  [][\A c \in Cells :
       internal_data'[c] # internal_data[c] =>
         \E t \in Threads :
           \/ pc[t].op = "cell_assign"
           \/ /\ pc[t] = Idle /\ pc'[t] = Idle
              /\ ret'[t] = NoRet
              /\ \E s \in Slots : handle[t][s] # NoHandle /\ handle'[t][s] = handle[t][s]]_vars

\* C18: a move assignment between two handles bound to different cells
\* releases every lock the destination held, gives the destination the locks
\* the source held, makes it own exactly when the source owned, and leaves the
\* source owning nothing.
AssignBegins(t) == pc[t] = Idle /\ pc'[t].op = "assign_data"

AssignEnds(t) == pc[t].op = "assign_data" /\ pc'[t] = Idle

DifferentCells(h, o) == h.refs[1] # o.refs[1]

MoveAssignTransfers ==
  [][\A t \in Threads :
       /\ AssignBegins(t) =>
            LET h == handle[t][pc'[t].s]
                o == handle[t][pc'[t].first]
            IN DifferentCells(h, o) =>
                 /\ \A c \in Cells : HoldsLock(h, c) => ~internal_mutex'[c]
                 /\ \A c \in Cells : ~HoldsLock(h, c) => internal_mutex'[c] = internal_mutex[c]
                 /\ handle'[t][pc'[t].s].locks = o.locks
                 /\ HoldsNone(handle'[t][pc'[t].first])
       /\ AssignEnds(t) =>
            LET h == handle[t][pc[t].s]
                o == handle[t][pc[t].first]
            IN DifferentCells(h, o) =>
                 /\ handle'[t][pc[t].s].locks = h.locks
                 /\ OwnsLock(handle'[t][pc[t].s]) = (IF h.kind = "ref" THEN OwnsLock(h) ELSE OwnsLock(o))
                 /\ OwnsLock(handle'[t][pc[t].s]) = handle'[t][pc[t].s].locks[1].o
                 /\ ~OwnsLock(handle'[t][pc[t].first])
                 /\ HoldsNone(handle'[t][pc[t].first])
                 /\ internal_mutex' = internal_mutex]_vars

\* A completed move assignment whose destination held one cell's lock and now
\* holds the lock of the other cell, which the source held; the first cell's
\* mutex is free again.
C18_Witness ==
  \E t \in Threads, d, s \in Slots :
    /\ ret[t].call = "assign" /\ ret[t].op = "assigned" /\ ret[t].s = d
    /\ handle[t][d].kind = "guard1" /\ handle[t][s].kind = "guard1" /\ d # s
    /\ DifferentCells(handle[t][d], handle[t][s])
    /\ OwnsLock(handle[t][d]) /\ HoldsLock(handle[t][d], handle[t][s].refs[1])
    /\ ~internal_mutex[handle[t][d].refs[1]]
    /\ ~OwnsLock(handle[t][s])

\* The handle object of thread t in slot s exists and its constructor has
\* returned.
Constructed(t, s) ==
  /\ handle[t][s] # NoHandle
  /\ ~(InProgress(t, s) /\ ret[t].call \in {"lock", "ctor", "try_ctor"})

\* The step destroys the object.
Destroyed(t, s) == handle'[t][s] = NoHandle

\* The step moves from the object: a move construction of another handle from
\* it, or one of the two steps of a move assignment from it.
MovedFrom(t, s) ==
  \/ \E d \in Slots : d # s /\ handle[t][d] = NoHandle /\ handle'[t][d] # NoHandle
  \/ AssignBegins(t) /\ pc'[t].first = s
  \/ AssignEnds(t) /\ pc[t].first = s

\* The step belongs to a move assignment into the object.
MovedInto(t, s) ==
  \/ AssignBegins(t) /\ pc'[t].s = s
  \/ AssignEnds(t) /\ pc[t].s = s

\* The step belongs to a lock() or try_lock() called on the object.
Retried(t, s) == ret'[t].call \in {"guard_lock", "guard_try_lock"} /\ ret'[t].s = s

\* C19 as stated: an object that owns its locks stops owning them only by
\* being destroyed or moved from, and one that does not own them comes to own
\* them only in a lock() or try_lock() retry called on it.
StatedMachine ==
  [][\A t \in Threads, s \in Slots :
       Constructed(t, s) =>
         /\ (OwnsLock(handle[t][s]) /\ ~OwnsLock(handle'[t][s])) =>
              (Destroyed(t, s) \/ MovedFrom(t, s))
         /\ (~OwnsLock(handle[t][s]) /\ OwnsLock(handle'[t][s])) =>
              Retried(t, s)]_vars

\* C19 amended: as stated, with the move assignment into the object as a
\* further cause of both changes.
StatedMachineWithAssign ==
  [][\A t \in Threads, s \in Slots :
       Constructed(t, s) =>
         /\ (OwnsLock(handle[t][s]) /\ ~OwnsLock(handle'[t][s])) =>
              (Destroyed(t, s) \/ MovedFrom(t, s) \/ MovedInto(t, s))
         /\ (~OwnsLock(handle[t][s]) /\ OwnsLock(handle'[t][s])) =>
              (Retried(t, s) \/ MovedInto(t, s))]_vars

\* A guard that a try_lock() retry made own its lock, next to a moved-from
\* guard: both a retry and a move have happened to the objects of a thread.
C19_Witness ==
  \E t \in Threads, s, d \in Slots :
    /\ ret[t].call = "guard_try_lock" /\ ret[t].ok /\ ret[t].s = s
    /\ handle[t][s].kind = "guard1" /\ OwnsLock(handle[t][s])
    /\ handle[t][d].kind = "guard1" /\ handle[t][d].locks[1].m = NoCell

InMoveCtor(t) == pc[t].op \in {"cell_ctor_lock", "cell_ctor_data"}

\* C21: a cell's move constructor takes the source's lock before it reads the
\* value.  While a handle holds the source's lock the constructor does not
\* advance and the new cell is not written; it reads only with the source's
\* mutex locked and held by no handle; when it returns the new cell has the
\* value the source had at the read, which is the value last written under the
\* source's lock, and the source's mutex is unlocked.
MoveCtorLocksSource ==
  [][\A t \in Threads :
       InMoveCtor(t) =>
         LET n == pc[t].first
             o == pc[t].k
         IN /\ Held(o) => (pc'[t] = pc[t] /\ internal_data'[n] = internal_data[n])
            /\ pc[t].op = "cell_ctor_data" => (internal_mutex[o] /\ ~Held(o))
            /\ pc'[t] = Idle =>
                 /\ pc[t].op = "cell_ctor_data"
                 /\ internal_data'[n] = internal_data[o]
                 /\ internal_data[o] = lastw[o]
                 /\ ~internal_mutex'[o]]_vars

\* A move constructor has returned that was entered while a handle held the
\* source's lock, and the new cell holds a value written through that handle.
C21_Witness ==
  \E t \in Threads :
    /\ ret[t].call = "cell_ctor" /\ ret[t].op = "constructed"
    /\ prog[t].busy
    /\ internal_data[ret[t].c] # 0
    /\ \E u \in Threads : u # t /\ prog[u].at = "done" /\ ret[u].call = "destroy"

\* Thread t holds mutex m inside a cell move: the first mutex of a pass of
\* std::lock, both mutexes once std::lock has returned, the source's mutex in
\* the move constructor.
CellHolds(t, m) ==
  \/ pc[t].op \in {"cell_try_other", "cell_try_this"} /\ StdLockFirst(pc[t]) = m
  \/ pc[t].op = "cell_assign" /\ m \in {pc[t].first, pc[t].k}
  \/ pc[t].op = "cell_ctor_data" /\ m = pc[t].k

\* Thread t is inside the move assignment of a cell.
InMoveAssign(t) ==
  pc[t].op \in {"cell_lock_this", "cell_lock_other", "cell_try_other", "cell_try_this", "cell_assign"}

\* Every locked mutex is held by exactly one handle or cell move, and while
\* some thread has not finished its program some thread can take a step.
CellLocksAccounted ==
  /\ \A m \in Cells :
       /\ internal_mutex[m] = (Held(m) \/ \E t \in Threads : CellHolds(t, m))
       /\ \A t, u \in Threads : (CellHolds(t, m) /\ CellHolds(u, m)) => t = u
       /\ \A t \in Threads : CellHolds(t, m) => ~Held(m)
  /\ (\E t \in Threads : prog[t].at \notin {"done", "constructed"}) => ENABLED NextCell

\* C22: a = move(b) between distinct cells moves the value only in the step in
\* which the assigning thread holds both mutexes, taken by std::lock, which
\* gives up the mutex it holds when it cannot take the other; no state is a
\* deadlock, whatever assignments run concurrently, and both mutexes are
\* unlocked when the assignment returns.
MoveAssignLocksBoth ==
  /\ []CellLocksAccounted
  /\ [][\A t \in Threads :
          (InMoveAssign(t) /\ pc'[t] # pc[t]) =>
            LET c == pc[t].first
                o == pc[t].k
            IN IF pc[t].op = "cell_assign"
               THEN /\ c # o
                    /\ CellHolds(t, c) /\ CellHolds(t, o)
                    /\ internal_data'[c] = internal_data[o]
                    /\ pc'[t] = Idle
                    /\ ~internal_mutex'[c] /\ ~internal_mutex'[o]
               ELSE /\ internal_data' = internal_data
                    /\ pc'[t] # Idle]_vars

\* Two threads run a = move(b) and b = move(a); each holds the mutex of its
\* own cell and is about to try the other's.
C22_Witness ==
  \E t, u \in Threads :
    /\ t # u
    /\ pc[t].op = "cell_try_other" /\ pc[u].op = "cell_try_other"
    /\ pc[t].first = pc[u].k /\ pc[t].k = pc[u].first

\* C23: unlock(ref) on an rmutex_ref that holds its cell's lock releases the
\* lock while the handle variable stays: in the state right after it the
\* variable is still there, the cell's mutex is unlocked, no handle holds it,
\* and a try_lock() on the cell succeeds.
UnlockReleases ==
  [][\A t \in Threads, s \in Slots :
       (handle[t][s].kind = "ref" /\ handle'[t][s].kind = "dead") =>
         LET c == handle[t][s].refs[1]
         IN HoldsLock(handle[t][s], c) =>
              /\ handle'[t][s] # NoHandle
              /\ ~internal_mutex'[c]
              /\ ~Held(c)'
              /\ try_to_lock(c)'
              /\ try_acquire_result(c, try_to_lock(c))' # NoHandle]_vars

\* A thread has released its lock with unlock(ref) and its variable is still
\* there, and another thread's try_lock() on the same cell has then succeeded.
C23_Witness ==
  \E t, u \in Threads, s \in Slots :
    /\ t # u
    /\ handle[t][s].kind = "dead"
    /\ ret[t].call = "unlock" /\ ret[t].held
    /\ ret[u].call = "try_lock" /\ ret[u].ok /\ ret[u].c = ret[t].c
    /\ HoldsLock(handle[u][ret[u].s], ret[t].c)

\* C24: no operation reports failure by throwing: no thread's last call ended
\* in an exception.
NeverThrows == \A t \in Threads : ~ret[t].err

\* What a caller sees of a guard variable: whether it is there, whether its
\* lifetime has ended, owns(), whether get_data() is populated, and whether
\* it holds the lock of cell c.
Seen(h, c) ==
  IF h = NoHandle THEN <<"none">>
  ELSE <<h.kind = "dead", owns(h), get_data(h).present, HoldsLock(h, c)>>

\* The two sides show the same: guard for guard the same owns(), the same
\* presence of get_data() and the same lock held, the same lock state of the
\* two cells, the same outcome of the last call, and both inside a blocking
\* call or neither.
SameSeen ==
  /\ \A s \in Slots : Seen(handle[Special][s], CellSpecial) = Seen(handle[General][s], CellGeneral)
  /\ internal_mutex[CellSpecial] = internal_mutex[CellGeneral]
  /\ Held(CellSpecial) = Held(CellGeneral)
  /\ (\E s \in Slots : HoldsLock(handle[Bystander][s], CellSpecial))
       = (\E s \in Slots : HoldsLock(handle[Bystander][s], CellGeneral))
  /\ (pc[Special] = Idle) = (pc[General] = Idle)
  /\ ret[Special].call = ret[General].call
  /\ ret[Special].ok = ret[General].ok
  /\ ret[Special].err = ret[General].err

\* Operation op on slots a and b can be done on one side exactly when it can
\* be done on the other.
SameEnabled(op, a, b) ==
  (ENABLED (Eq_special(op, a, b) /\ UNCHANGED <<prog, inst>>))
    = (ENABLED (Eq_general(op, a, b) /\ UNCHANGED <<prog, inst>>))

TupleInConstructionOrder ==
  [][\A t \in Users, s \in Slots :
       LET h == handle[t][s]
       IN /\ \A cs \in ListsOver(UserCells) :
               rmutex_guard_ctor(t, s, cs) =>
                 /\ tuple_of_refs(handle'[t][s]) = cs
                 /\ \A i \in 1..Len(cs) : handle'[t][s].locks[i].m = cs[i]
          /\ (h.kind = "guard" /\ handle'[t][s].kind = "guard") =>
               /\ tuple_of_refs(handle'[t][s]) = tuple_of_refs(h)
               /\ \A i \in 1..Len(h.locks) : handle'[t][s].locks[i].m = h.locks[i].m
          /\ (h.kind = "guard" /\ owns(h)) =>
               /\ get_data(h).present
               /\ Len(get_data(h).tuple) = Len(h.locks)
          /\ \A i \in 1..NumCells, v \in Values :
               (h.kind = "guard" /\ guard_write(t, s, i, v)) =>
                 /\ h.locks[i].o
                 /\ internal_data' = [internal_data EXCEPT ![h.locks[i].m] = v]]_vars

\* A guard built over the cells in descending order owns its locks and a
\* store through its first element has changed the higher cell while the
\* lower cell kept another value.
C26_Witness ==
  \E t \in Users, s \in Slots :
    LET h == handle[t][s]
    IN /\ h.kind = "guard" /\ owns(h)
       /\ Len(h.locks) = 2
       /\ h.locks[1].m > h.locks[2].m
       /\ get_data(h).tuple[1] = h.locks[1].m
       /\ wr[h.locks[1].m] = "held"
       /\ internal_data[h.locks[1].m] = 1
       /\ internal_data[h.locks[2].m] = 0
       /\ wr[h.locks[2].m] = "init"

\* The type ty is rmutex<U> for some type U.
IsCellOf(ty) == \E U \in TypesUpTo(MaxDepth) : ty = <<"rmutex">> \o U

\* C27: rmutex_guard<Ts...> is accepted only when every type of the pack is
\* rmutex<U> for some U: all_are_rmutex<Ts...> is true exactly for these
\* packs, a pack with any other type in it, such as <rmutex<int>, int>, is
\* rejected, and a pack of cells only is accepted.
GuardOnlyOverCells ==
  /\ all_are_rmutex(inst.Ts) <=> \A i \in 1..Len(inst.Ts) : IsCellOf(inst.Ts[i])
  /\ inst.guard = "accepted" <=> (inst.guard # "none" /\ \A i \in 1..Len(inst.Ts) : IsCellOf(inst.Ts[i]))
  /\ (inst.guard # "none" /\ \E i \in 1..Len(inst.Ts) : ~IsCellOf(inst.Ts[i])) => inst.guard = "rejected"
  /\ (inst.guard # "none" /\ inst.Ts = << <<"rmutex", "int">>, <<"int">> >>) => inst.guard = "rejected"

\* rmutex_guard<rmutex<int>, int> has been rejected.
C27_Witness == inst.Ts = << <<"rmutex", "int">>, <<"int">> >> /\ inst.guard = "rejected"

WaitsHoldingNothing ==
  /\ [](\A t \in Threads :
          (pc[t].op = "lock_all" /\ pc[t].k = 0) =>
            \A i \in 1..Len(handle[t][pc[t].s].locks) : ~handle[t][pc[t].s].locks[i].o)
  /\ [][\A t \in Threads :
          /\ (pc[t].op = "lock_all" /\ pc[t].k >= 1 /\ pc'[t] # pc[t]) =>
               \/ pc'[t].op = "backoff"
               \/ handle'[t][pc[t].s].locks[LockAllTarget(t)].o
          /\ (pc[t].op = "backoff" /\ pc'[t] # pc[t]) =>
               /\ pc'[t].op = "lock_all" /\ pc'[t].k = 0
               /\ \A i \in 1..Len(handle'[t][pc[t].s].locks) :
                    /\ ~handle'[t][pc[t].s].locks[i].o
                    /\ handle[t][pc[t].s].locks[i].o =>
                         ~internal_mutex'[handle[t][pc[t].s].locks[i].m]]_vars

\* After a failed pass a thread waits for the lock that could not be taken,
\* which another thread's handle holds, and holds none of its guard's locks.
C29_Witness ==
  \E t \in Threads :
    /\ pc[t].op = "lock_all" /\ pc[t].k = 0 /\ pc[t].first # 1
    /\ LET h == handle[t][pc[t].s]
       IN /\ Held(h.locks[pc[t].first].m)
          /\ \A i \in 1..Len(h.locks) : ~h.locks[i].o

\* C30: whenever a single-cell handle (rmutex_ref, rmutex_guard<T>) owns a
\* lock and no call on it is under way, the lock is that of the cell its data
\* reference designates.
DataDesignatesLockedCell ==
  \A t \in Threads, s \in Slots :
    LET h == handle[t][s]
    IN (h.kind \in {"ref", "guard1"} /\ pc[t] = Idle /\ OwnsLock(h)) =>
         h.locks[1] = [m |-> deref(h), o |-> TRUE]

\* Thread t is inside a move construction or has just left it.
Moving(t) == pc[t].op = "move"

\* C31: a move of an owning handle never releases the cell's lock.  A mutex
\* some handle owns is locked in every state, also between the two halves of
\* a move and after the moved-from source was destroyed; a cell held by a
\* handle that is being moved stays locked and held over every step taken
\* meanwhile; a mutex is unlocked only by a step after which no
\* handle owns it; and a thread gets hold of a cell it did not hold only when
\* no handle held the cell, so no lock() or try_lock() of another thread
\* succeeds on the cell while it is being handed over.
MoveKeepsLocked ==
  /\ [](\A c \in Cells : Held(c) => internal_mutex[c])
  /\ [][/\ \A t \in Threads, c \in Cells :
             ((Moving(t) \/ Moving(t)') /\ \E s \in Slots : HoldsLock(handle[t][s], c)) =>
               /\ internal_mutex[c] /\ internal_mutex'[c]
               /\ \E s \in Slots : HoldsLock(handle'[t][s], c)
        /\ \A c \in Cells :
             (internal_mutex[c] /\ ~internal_mutex'[c]) => ~Held(c)'
        /\ \A t \in Threads, c \in Cells :
             ( /\ \A s \in Slots : ~HoldsLock(handle[t][s], c)
               /\ \E s \in Slots : HoldsLock(handle'[t][s], c) ) =>
               /\ ~Held(c)
               /\ ~internal_mutex[c]]_vars

\* A handle was moved and its moved-from source destroyed; the new handle
\* holds the cell, which is locked, another thread's try_lock() on the cell
\* has failed and a third thread is blocked in lock() on it.
C31_Witness ==
  \E t \in Movers, d \in Slots, u, w \in Threads \ Movers :
    LET c == handle[t][d].locks[1].m
    IN /\ pc[t] = Idle
       /\ ret[t].call = "destroy" /\ ~ret[t].held /\ ret[t].c = NoCell
       /\ handle[t][d] # NoHandle
       /\ HoldsLock(handle[t][d], c)
       /\ \A s \in Slots \ {d} : handle[t][s] = NoHandle
       /\ internal_mutex[c]
       /\ u # w
       /\ ret[u].call = "try_lock" /\ ~ret[u].ok /\ ret[u].c = c
       /\ pc[w].op = "lock" /\ handle[w][pc[w].s].locks[1].m = c

\* The handle h has been released early or moved from: its destructor has
\* run, or its unique_lock has no mutex.
SpentHandle(h) == h.kind = "dead" \/ (h.kind = "ref" /\ h.locks[1].m = NoCell)

\* C32: a handle's lock is released at most once: the end of the scope of a
\* handle variable that was released early, or moved from, unlocks no mutex,
\* and afterwards every cell a handle holds is still locked.
ReleasedAtMostOnce ==
  [][\A t \in Threads, s \in Slots :
       (SpentHandle(handle[t][s]) /\ handle'[t][s] = NoHandle) =>
         /\ internal_mutex' = internal_mutex
         /\ \A c \in Cells : Held(c)' => internal_mutex'[c]]_vars

\* C33: the blocking constructor of a guard that was given the same cell
\* twice never completes: in every state the thread is still inside the
\* constructor, the guard's flag is false and get_data() is empty, the two
\* unique_locks on the repeated cell are never both owned, and no step
\* returns from the constructor.
DuplicateNeverCompletes ==
  /\ [](\A t \in Threads, s \in Slots :
          LET h == handle[t][s]
          IN (h.kind = "guard" /\ ~NoDup(h.refs)) =>
               /\ ~owns(h)
               /\ ~get_data(h).present
               /\ pc[t].op \in {"lock_all", "backoff"} /\ pc[t].s = s
               /\ \E i \in 1..Len(h.locks) : ~h.locks[i].o
               /\ ~(ret[t].call = "ctor" /\ ret[t].op = "guard_lock"))
  /\ [][\A t \in Threads :
          (pc[t].op \in {"lock_all", "backoff"} /\ ~NoDup(handle[t][pc[t].s].refs)) =>
            pc'[t].op \in {"lock_all", "backoff"}]_vars

\* A constructor given the same cell twice has undone a pass and waits again,
\* while no other thread holds or wants any cell.
C33_Witness ==
  \E t \in Movers :
    /\ pc[t].op = "lock_all" /\ pc[t].k = 0 /\ pc[t].first # 1
    /\ ~NoDup(handle[t][pc[t].s].refs)
    /\ \A c \in Cells : ~internal_mutex[c]
    /\ \A u \in Threads \ {t} : pc[u] = Idle /\ NoHandles(u)

\* Thread t returns from a try acquisition with a failure in this step.
TryFails(t) ==
  /\ ret'[t] # ret[t]
  /\ ret'[t].op \in {"try_lock", "guard_try_lock"}
  /\ ~ret'[t].ok

\* The cells thread t holds through its handles.
HeldBy(t) == {c \in Cells : ThreadHolds(t, c)}

\* C34: a try acquisition that fails leaves the shared state as it was.  A
\* failing rmutex::try_lock(), and a failing try constructor or try_lock()
\* of rmutex_guard<T>, is one step that changes no mutex, no value and no
\* holder.  A try on a guard of several cells starts with none of the
\* guard's locks owned, no step of it changes a value or what another
\* thread holds, and the step that returns the failure leaves the caller
\* holding what it held apart from the guard, every lock of the guard
\* released, and every cell locked exactly when some handle holds it.
FailedTryIsNoOp ==
  [][\A t \in Threads :
       /\ (TryFails(t) /\ pc[t] = Idle) =>
            /\ internal_mutex' = internal_mutex
            /\ internal_data' = internal_data
            /\ \A c \in Cells : Holders(c)' = Holders(c)
       /\ (pc[t] = Idle /\ pc'[t].op = "try_lock_all") =>
            \A i \in 1..Len(handle'[t][pc'[t].s].locks) : ~handle'[t][pc'[t].s].locks[i].o
       /\ (pc[t].op \in {"try_lock_all", "rollback"} /\ pc'[t] # pc[t]) =>
            /\ internal_data' = internal_data
            /\ \A u \in Threads \ {t} : handle'[u] = handle[u]
       /\ (TryFails(t) /\ pc[t].op = "rollback") =>
            LET s == pc[t].s
            IN /\ \A i \in 1..Len(handle'[t][s].locks) : ~handle'[t][s].locks[i].o
               /\ HeldBy(t)' = {c \in Cells : \E x \in Slots \ {s} : HoldsLock(handle[t][x], c)}
               /\ \A c \in Cells : internal_mutex'[c] = (Holders(c)' # {})
               /\ ~owns(handle'[t][s]) /\ ~get_data(handle'[t][s]).present]_vars

\* A try on a guard of two cells has failed on the second cell after it had
\* taken the first: another thread holds the second cell, whose value it has
\* written, the first cell is unlocked again and the caller holds nothing.
C34_Witness ==
  \E t, u \in Users :
    /\ t # u
    /\ pc[t] = Idle
    /\ ret[t].op = "guard_try_lock" /\ ~ret[t].ok
    /\ \E s \in Slots :
         LET h == handle[t][s]
         IN /\ h.kind = "guard"
            /\ ret[t].c = h.locks[2].m
            /\ ~internal_mutex[h.locks[1].m]
            /\ ThreadHolds(u, h.locks[2].m)
            /\ wr[h.locks[2].m] = "held"
    /\ HeldBy(t) = {}

\* Every handle has been destroyed and no thread is inside a call.
AllQuiet == \A t \in Threads : pc[t] = Idle /\ NoHandles(t)

\* C35: no lock is leaked: whenever every handle has been destroyed and no
\* operation is in progress, every cell is unlocked.
NoLockLeaked == AllQuiet => \A c \in Cells : ~internal_mutex[c]

\* Everything is destroyed and unlocked after a thread has move-assigned one
\* handle to another (which left a value stored outside the lock) and has
\* then destroyed a handle that held a lock.
C35_Witness ==
  /\ AllQuiet
  /\ \A c \in Cells : ~internal_mutex[c]
  /\ \E c \in Cells : wr[c] = "unlocked"
  /\ \E t \in Movers : ret[t].call = "destroy" /\ ret[t].held

\* The guard owns its locks: its flag is set and every lock of it is owned.
OwnsEveryLock(h) ==
  /\ h.kind \in {"guard", "guard1"}
  /\ owns(h)
  /\ \A i \in 1..Len(h.locks) : h.locks[i].m # NoCell /\ h.locks[i].o

\* The step is a call of lock() or try_lock() by thread t on the guard in
\* slot s: the thread was outside any call and what it last called changes.
LockAgain(t, s) ==
  /\ pc[t] = Idle
  /\ ret'[t].call \in {"guard_lock", "guard_try_lock"}
  /\ ret'[t].s = s
  /\ ret'[t] # ret[t]

\* C36: lock() or try_lock() on a guard that already owns its locks leaves
\* the state unchanged: every handle, and so the locks the guard holds and
\* its owns() flag, every mutex and every value is as before, and the call
\* has returned to the caller within the step, so the thread waits for no
\* lock, its own included.
RelockLeavesStateUnchanged ==
  [][\A t \in Threads, s \in Slots :
       (OwnsEveryLock(handle[t][s]) /\ LockAgain(t, s)) =>
          /\ handle' = handle
          /\ internal_mutex' = internal_mutex
          /\ internal_data' = internal_data
          /\ OwnsEveryLock(handle'[t][s])
          /\ \A i \in 1..Len(handle[t][s].locks) : internal_mutex'[handle[t][s].locks[i].m]
          /\ pc'[t] = Idle]_vars

\* A thread has called lock() or try_lock() on a guard of two cells that
\* owns both: the call is over, both cells are locked and held by the guard.
C36_Witness ==
  \E t \in Users, s \in Slots :
    /\ pc[t] = Idle
    /\ ret[t].call \in {"guard_lock", "guard_try_lock"}
    /\ ret[t].s = s
    /\ ret[t].op = "threw"
    /\ OwnsEveryLock(handle[t][s])
    /\ Len(handle[t][s].locks) = 2
    /\ \A i \in 1..2 : internal_mutex[handle[t][s].locks[i].m]

\* Thread t is inside a blocking acquisition of a mutex that is locked: in
\* unique_lock::lock(), or in the blocking lock() of a pass of std::lock.
WaitsForLocked(t) ==
  \/ pc[t].op = "lock" /\ internal_mutex[Awaited(t)]
  \/ /\ pc[t].op = "lock_all"
     /\ pc[t].k = 0
     /\ internal_mutex[handle[t][pc[t].s].locks[LockAllTarget(t)].m]

\* The guard thread and the thread that locks cell by cell have finished.
CycleDone == \A t \in Movers \cup Lockers : prog[t].at = "done" /\ NoHandles(t)

\* The two threads never wait for a locked mutex at the same time (each
\* could then only be waiting for the other, forever).
NoDeadlockCycle == ~(\A t \in Movers \cup Lockers : WaitsForLocked(t))

\* C37: a blocking guard never completes a deadlock cycle with single-cell
\* locking: while one thread constructs a blocking guard over a and b and
\* another holds an rmutex_ref on b and calls lock() on a, no reachable state
\* has both threads waiting for a locked mutex, and under fair scheduling
\* both threads finish.
GuardCompletesNoCycle == []NoDeadlockCycle /\ <>CycleDone

\* The guard over <<a, b>> took a, could not take b, released a and now
\* waits for b holding nothing; the other thread holds b and is inside
\* lock() on a, which is free.
C37_Witness ==
  \E g \in Movers, t \in Lockers, x \in Fresh, y \in Second :
    LET h == handle[g][x]
    IN /\ pc[g].op = "lock_all" /\ pc[g].k = 0 /\ pc[g].first = Len(h.locks)
       /\ Len(h.locks) = 2
       /\ HoldsNone(h)
       /\ HoldsLock(handle[t][x], h.refs[Len(h.locks)])
       /\ pc[t].op = "lock" /\ pc[t].s = y
       /\ Awaited(t) = h.refs[1]
       /\ ~internal_mutex[h.refs[1]]
====
